---- MODULE Spec2Model ----
(***************************************************************************)
(* Icon-generation utility of tauri-solidjs-template.                      *)
(*                                                                         *)
(* The model has these parts:                                                *)
(*   - a file system (directories and files addressed by paths) with the   *)
(*     node:fs calls the scripts use, and the backup / restore helpers and *)
(*     platform handlers built on them (specification SpecFs);             *)
(*   - the orchestrator `main` in its three variants                       *)
(*     (scripts/generate-icons.ts, the class-based script without          *)
(*     gradient, the class-based script with gradient), as a step machine  *)
(*     over that file system (specification Spec);                         *)
(*   - the Android background patch and findInputIcon on their own         *)
(*     (specifications SpecRes and SpecFind);                              *)
(*   - the geometry of the compositor and the gradient generators, as      *)
(*     functions over integers (specifications SpecIcon and SpecGradient). *)
(***************************************************************************)
EXTENDS Integers, Sequences, FiniteSets, TLC

VARIABLES
    variant,    \* which orchestrator script is run
    pc,         \* where main is: "main", "await", "catch", "finally", "done", "exited"
    ip,         \* index into MainSteps(variant) of the next statement of the try block
    fs,         \* the file system: [dirs: set of paths, files: path -> content]
    opts,       \* answers collected from the prompts
    inputIcon,  \* result of findInputIcon (<<>> before it is found)
    inflight,   \* external CLI invocations started and not yet completed
    exitCode,   \* "running", or the exit status of the process: 0 or 1
    log,        \* history of the current run: the operations performed, in order
    runs,       \* number of runs started so far
    prior,      \* what the previous run was given and what it left, when it succeeded
    hs,         \* SpecFs: which helper pair is exercised
    hfs,        \* SpecFs: the file system the helpers act on
    hpre,       \* SpecFs: hfs before the last helper call
    hlast,      \* SpecFs: the last helper call
    hsteps,     \* SpecFs: number of steps taken
    calls,      \* SpecIcon, SpecGradient: the calls made to the generators, with their results
    greetMsg,   \* App: the greetMsg signal, the text displayed
    name,       \* App: the name signal
    invokes,    \* App: the invoke("greet") calls awaiting their response
    submitted   \* App: the names the form was submitted with, in order

orchVars == <<variant, pc, ip, fs, opts, inputIcon, inflight, exitCode, log, runs, prior>>
helperVars == <<hs, hfs, hpre, hlast, hsteps>>
calcVars == <<calls>>
vars == <<variant, pc, ip, fs, opts, inputIcon, inflight, exitCode, log, runs, prior,
          hs, hfs, hpre, hlast, hsteps, calls, greetMsg, name, invokes, submitted>>
appVars == <<greetMsg, name, invokes, submitted>>

\* the component as mounted: both signals empty, nothing submitted
AppMounted ==
    /\ greetMsg = <<>>
    /\ name = ""
    /\ invokes = {}
    /\ submitted = <<>>

-----------------------------------------------------------------------------
(* Paths. A path is a sequence of components; a configured directory such  *)
(* as "src-tauri/icons" is one component, its parents are not modelled.    *)

ASSETS_DIR == <<"assets">>
TEMP_DIR == <<"assets", ".temp-icons">>
TAURI_ICONS_DIR == <<"src-tauri/icons">>
IOS_ICONS_DIR == <<"src-tauri/gen/apple/Assets.xcassets/AppIcon.appiconset">>
ANDROID_RES_DIR == <<"src-tauri/gen/android/app/src/main/res">>
ANDROID_BACKGROUND_XML == ANDROID_RES_DIR \o <<"values", "ic_launcher_background.xml">>
GENERATED_ICNS == TAURI_ICONS_DIR \o <<"icon.icns">>
MACOS_ICNS == TAURI_ICONS_DIR \o <<"icon.macOS.icns">>

androidAdaptiveDirs ==
    <<"mipmap-anydpi-v26", "mipmap-hdpi", "mipmap-mdpi",
      "mipmap-xhdpi", "mipmap-xxhdpi", "mipmap-xxxhdpi">>

candidates == <<"icon.svg", "icon.png", "icon.jpg", "icon.jpeg">>

\* path.join(base, name)
join(base, child) == base \o <<child>>

\* path.dirname(p)
dirname(p) == IF Len(p) = 0 THEN p ELSE SubSeq(p, 1, Len(p) - 1)

\* CONFIG.dirs.temp joined with a sub path (getBackupPath, getTempPath,
\* resolveTemporaryPath)
resolveTemporaryPath(subpath) == join(TEMP_DIR, subpath)

tempIconPath(platform) ==
    resolveTemporaryPath(
        CASE platform = "android" -> "icon-android-temp.png"
          [] platform = "macos" -> "icon-macos-temp.png"
          [] platform = "ios" -> "icon-ios-temp.png"
          [] OTHER -> "icon-windows-temp.png")

-----------------------------------------------------------------------------
(* The file system and the node:fs calls.                                  *)

IsPrefix(p, q) == Len(p) <= Len(q) /\ SubSeq(q, 1, Len(p)) = p

Prefixes(p) == {SubSeq(p, 1, n) : n \in 1..Len(p)}

Rebase(q, src, dst) == dst \o SubSeq(q, Len(src) + 1, Len(q))

EmptyFs == [dirs |-> {}, files |-> [q \in {} |-> ""]]

isFile(f, p) == p \in DOMAIN f.files
isDir(f, p) == p = <<>> \/ p \in f.dirs

\* fs.existsSync(p)
existsSync(f, p) == isFile(f, p) \/ isDir(f, p)

\* fs.mkdirSync(p, { recursive: true })
mkdirSync(f, p) == [f EXCEPT !.dirs = @ \cup Prefixes(p)]

\* fs.writeFileSync(p, content); the parent directory must exist
writeFileSync(f, p, content) ==
    [f EXCEPT !.files = [q \in DOMAIN @ \cup {p} |-> IF q = p THEN content ELSE @[q]]]

FilesUnder(f, p) == {q \in DOMAIN f.files : IsPrefix(p, q)}
DirsUnder(f, p) == {q \in f.dirs : IsPrefix(p, q)}

\* fs.rmSync(p, { recursive: true }) and fs.unlinkSync on a file
rmSync(f, p) ==
    [dirs |-> f.dirs \ DirsUnder(f, p),
     files |-> [q \in DOMAIN f.files \ FilesUnder(f, p) |-> f.files[q]]]

\* The outcome of a call that can throw: the file system it leaves, and
\* whether it threw.
Ok(f) == [fs |-> f, threw |-> FALSE]
Throw(f) == [fs |-> f, threw |-> TRUE]

\* fs.cpSync(src, dst, { recursive: true }): the tree under src is merged
\* into dst; dst and its parents are created, same-named files overwritten,
\* nothing at dst is removed.
cpSync(f, src, dst) ==
    LET copied == {Rebase(q, src, dst) : q \in FilesUnder(f, src)}
        made == {Rebase(q, src, dst) : q \in DirsUnder(f, src)}
    IN  [dirs |-> f.dirs \cup made \cup Prefixes(dirname(dst)),
         files |-> [q \in DOMAIN f.files \cup copied |->
                      IF q \in copied
                      THEN f.files[Rebase(q, dst, src)]
                      ELSE f.files[q]]]

\* fs.renameSync(src, dst) of a file
renameSync(f, src, dst) == rmSync(writeFileSync(f, dst, f.files[src]), src)

\* fs.readdirSync(p): the names directly under p
readdirSync(f, p) ==
    {q[Len(p) + 1] : q \in {r \in DOMAIN f.files \cup f.dirs :
                              IsPrefix(p, r) /\ Len(r) > Len(p)}}

-----------------------------------------------------------------------------
(* The backup / restore helpers (file module, FileManager) and the         *)
(* platform handlers.                                                      *)

\* ensureDirectoryExists / FileManager.ensureDir
ensureDirectoryExists(f, directoryPath) ==
    IF ~existsSync(f, directoryPath) THEN mkdirSync(f, directoryPath) ELSE f

\* backup(sourcePath, backupPath) / FileManager.backup
backup(f, sourcePath, backupPath) ==
    LET f1 == ensureDirectoryExists(f, dirname(backupPath))
    IN  IF existsSync(f1, sourcePath)
        THEN Ok(cpSync(f1, sourcePath, backupPath))
        ELSE Ok(f1)

\* A restore that lost its existence check: the target is prepared and the
\* copy of a missing backup throws.
restore_unguarded(f, backupPath, originalPath) ==
    LET f1 == ensureDirectoryExists(f, originalPath)
    IN  IF existsSync(f1, backupPath)
        THEN Ok(cpSync(f1, backupPath, originalPath))
        ELSE Throw(f1)

\* A restore that replaces the target instead of merging into it.
restore_replacing(f, backupPath, originalPath) ==
    IF ~existsSync(f, backupPath)
    THEN Ok(f)
    ELSE Ok(cpSync(rmSync(f, originalPath), backupPath, originalPath))

\* restore(backupPath, originalPath) of the file module
restore(f, backupPath, originalPath) ==
    IF ~existsSync(f, backupPath)
    THEN Ok(f)
    ELSE Ok(cpSync(ensureDirectoryExists(f, dirname(originalPath)),
                   backupPath, originalPath))

\* FileManager.restore(backupPath, targetPath)
FileManager_restore(f, backupPath, targetPath) ==
    IF ~existsSync(f, backupPath)
    THEN Ok(f)
    ELSE Ok(cpSync(ensureDirectoryExists(f, targetPath), backupPath, targetPath))

\* backupIOSIcons / IOSHandler.backup
backupIOSIcons(f) ==
    IF existsSync(f, IOS_ICONS_DIR)
    THEN backup(f, IOS_ICONS_DIR, resolveTemporaryPath("ios-icons"))
    ELSE Ok(f)

\* restoreIOSIcons / IOSHandler.restore
restoreIOSIcons(f) ==
    IF existsSync(f, resolveTemporaryPath("ios-icons"))
    THEN restore(f, resolveTemporaryPath("ios-icons"), IOS_ICONS_DIR)
    ELSE Ok(f)

\* the loop of backupAndroidAdaptive over androidAdaptiveDirs[i..]
RECURSIVE backupAdaptiveFrom(_, _)
backupAdaptiveFrom(r, i) ==
    IF i > Len(androidAdaptiveDirs) \/ r.threw
    THEN r
    ELSE LET sourceDirectory == join(ANDROID_RES_DIR, androidAdaptiveDirs[i])
             targetDirectory ==
                 join(resolveTemporaryPath("android-adaptive"), androidAdaptiveDirs[i])
         IN  backupAdaptiveFrom(
                 IF existsSync(r.fs, sourceDirectory)
                 THEN backup(r.fs, sourceDirectory, targetDirectory)
                 ELSE r,
                 i + 1)

\* backupAndroidAdaptive / AndroidHandler.backup
backupAndroidAdaptive(f) ==
    backupAdaptiveFrom(
        Ok(ensureDirectoryExists(f, resolveTemporaryPath("android-adaptive"))), 1)

\* the loop of restoreAndroidAdaptive over the entries of the backup that
\* are still to be handled
RECURSIVE restoreAdaptiveOver(_, _)
restoreAdaptiveOver(r, todo) ==
    IF todo = {} \/ r.threw
    THEN r
    ELSE LET directory == CHOOSE d \in todo : TRUE
             sourcePath == join(resolveTemporaryPath("android-adaptive"), directory)
             targetPath == join(ANDROID_RES_DIR, directory)
         IN  restoreAdaptiveOver(
                 IF existsSync(r.fs, sourcePath)
                 THEN restore(r.fs, sourcePath, targetPath)
                 ELSE r,
                 todo \ {directory})

\* restoreAndroidAdaptive / AndroidHandler.restore
restoreAndroidAdaptive(f) ==
    IF ~existsSync(f, resolveTemporaryPath("android-adaptive"))
    THEN Ok(f)
    ELSE restoreAdaptiveOver(
             Ok(f), readdirSync(f, resolveTemporaryPath("android-adaptive")))

\* A backupWindowsIcons that keeps the macOS variant in the snapshot.
backupWindowsIcons_keepsMacos(f) ==
    IF existsSync(f, TAURI_ICONS_DIR)
    THEN backup(f, TAURI_ICONS_DIR, resolveTemporaryPath("windows-icons"))
    ELSE Ok(f)

\* backupWindowsIcons: fs.rmSync without force throws on a missing path
backupWindowsIcons(f) ==
    IF existsSync(f, TAURI_ICONS_DIR)
    THEN LET r == backup(f, TAURI_ICONS_DIR, resolveTemporaryPath("windows-icons"))
             snapshotIcns == join(resolveTemporaryPath("windows-icons"), "icon.macOS.icns")
         IN  IF existsSync(r.fs, MACOS_ICNS)
             THEN IF existsSync(r.fs, snapshotIcns)
                  THEN Ok(rmSync(r.fs, snapshotIcns))
                  ELSE Throw(r.fs)
             ELSE r
    ELSE Ok(f)

\* restoreWindowsIcons
restoreWindowsIcons(f) ==
    IF existsSync(f, resolveTemporaryPath("windows-icons"))
    THEN restore(f, resolveTemporaryPath("windows-icons"), TAURI_ICONS_DIR)
    ELSE Ok(f)

\* backupAndroidAdaptiveIcons of scripts/generate-icons.ts
RECURSIVE legacyBackupAdaptiveFrom(_, _)
legacyBackupAdaptiveFrom(f, i) ==
    IF i > Len(androidAdaptiveDirs)
    THEN f
    ELSE LET sourceDir == join(ANDROID_RES_DIR, androidAdaptiveDirs[i])
             backupDir ==
                 join(resolveTemporaryPath("icon-android-backup"), androidAdaptiveDirs[i])
         IN  legacyBackupAdaptiveFrom(
                 IF existsSync(f, sourceDir) THEN cpSync(f, sourceDir, backupDir) ELSE f,
                 i + 1)

backupAndroidAdaptiveIcons(f) ==
    Ok(legacyBackupAdaptiveFrom(
           ensureDirectoryExists(f, resolveTemporaryPath("icon-android-backup")), 1))

\* restoreAndroidAdaptiveIcons of scripts/generate-icons.ts
RECURSIVE legacyRestoreAdaptiveOver(_, _)
legacyRestoreAdaptiveOver(f, todo) ==
    IF todo = {}
    THEN f
    ELSE LET dir == CHOOSE d \in todo : TRUE
             backupDir == join(resolveTemporaryPath("icon-android-backup"), dir)
             targetDir == join(ANDROID_RES_DIR, dir)
         IN  legacyRestoreAdaptiveOver(
                 IF existsSync(f, backupDir) THEN cpSync(f, backupDir, targetDir) ELSE f,
                 todo \ {dir})

restoreAndroidAdaptiveIcons(f) ==
    IF ~existsSync(f, resolveTemporaryPath("icon-android-backup"))
    THEN Ok(f)
    ELSE Ok(legacyRestoreAdaptiveOver(
                f, readdirSync(f, resolveTemporaryPath("icon-android-backup"))))

\* backupIOSIcons of scripts/generate-icons.ts
legacyBackupIOSIcons(f) ==
    IF ~existsSync(f, IOS_ICONS_DIR)
    THEN Ok(f)
    ELSE Ok(cpSync(ensureDirectoryExists(f, resolveTemporaryPath("icon-ios-backup")),
                   IOS_ICONS_DIR, resolveTemporaryPath("icon-ios-backup")))

\* restoreIOSIcons of scripts/generate-icons.ts
legacyRestoreIOSIcons(f) ==
    IF ~existsSync(f, resolveTemporaryPath("icon-ios-backup"))
    THEN Ok(f)
    ELSE Ok(cpSync(ensureDirectoryExists(f, IOS_ICONS_DIR),
                   resolveTemporaryPath("icon-ios-backup"), IOS_ICONS_DIR))

-----------------------------------------------------------------------------
(* values/ic_launcher_background.xml. Its content is the sequence of the   *)
(* nodes of its <resources> element; the text of a color node is on one    *)
(* line, as the CLI writes it. Every other file's content is a string.     *)

ColorNode(resource, text) == [tag |-> "color", name |-> resource, text |-> text]
OtherNode(text) == [tag |-> "other", name |-> "", text |-> text]

\* <resources><color name="ic_launcher_background">text</color></resources>
ColorResource(text) == <<ColorNode("ic_launcher_background", text)>>

\* a document without the color node
NoColorNode == <<OtherNode("<!-- launcher -->")>>

\* where the document has a <color name="ic_launcher_background"> node
colorNodes(xmlContent) ==
    {i \in DOMAIN xmlContent :
        xmlContent[i].tag = "color" /\ xmlContent[i].name = "ic_launcher_background"}

\* the text of the first of them, "" when there is none
backgroundColorOf(xmlContent) ==
    IF colorNodes(xmlContent) = {}
    THEN ""
    ELSE xmlContent[CHOOSE i \in colorNodes(xmlContent) :
                        \A j \in colorNodes(xmlContent) : i <= j].text

-----------------------------------------------------------------------------
(* The external CLI `pnpm tauri icon <path>`: it rewrites the whole icon   *)
(* output tree from the image it is given (the desktop bundle icons, and   *)
(* the Android and iOS projects where they exist) and removes nothing.     *)

RECURSIVE writeAll(_, _, _)
writeAll(f, paths, content) ==
    IF paths = {}
    THEN f
    ELSE LET q == CHOOSE x \in paths : TRUE
         IN  writeAll(writeFileSync(mkdirSync(f, dirname(q)), q, content),
                      paths \ {q}, content)

DesktopOutputs == {GENERATED_ICNS, join(TAURI_ICONS_DIR, "icon.png")}

AndroidImageOutputs ==
    {ANDROID_RES_DIR \o <<androidAdaptiveDirs[i], "ic_launcher.png">> :
        i \in 2..Len(androidAdaptiveDirs)}

AndroidDescriptorOutputs ==
    {ANDROID_RES_DIR \o <<androidAdaptiveDirs[1], "ic_launcher.xml">>,
     ANDROID_RES_DIR \o <<androidAdaptiveDirs[1], "ic_launcher_round.xml">>}

IOSOutputs == {join(IOS_ICONS_DIR, "AppIcon-512@2x.png")}

tauriIcon(f, iconPath) ==
    LET image == f.files[iconPath]
        f1 == writeAll(f, DesktopOutputs, image)
        f2 == IF existsSync(f1, ANDROID_RES_DIR)
              THEN writeAll(
                       writeAll(writeAll(f1, AndroidImageOutputs, image),
                                AndroidDescriptorOutputs, "@color/ic_launcher_background"),
                       {ANDROID_BACKGROUND_XML}, ColorResource("#fff"))
              ELSE f1
    IN  IF existsSync(f2, IOS_ICONS_DIR) THEN writeAll(f2, IOSOutputs, image) ELSE f2

-----------------------------------------------------------------------------
(* The orchestrator.                                                       *)

Variants == {"legacy", "classes", "gradient"}

Step(op, p) == [op |-> op, p |-> p]

\* a main that takes its backups up front, before the first command
MainSteps_backupFirst(v) ==
    <<Step("ensureDir", "assets"), Step("ensureDir", "temp"),
      Step("findInputIcon", ""),
      Step("prompt", "backgroundColor"), Step("prompt", "useGradient"),
      Step("prompt", "macOSShape"),
      Step("backup", "android"), Step("backup", "ios"),
      Step("generate", "android"), Step("cli", "android"),
      Step("generate", "macos"), Step("moveTemp", "macos"),
      Step("generate", "ios"), Step("cli", "ios"),
      Step("generate", "windows"), Step("cli", "windows"),
      Step("restore", "android"), Step("patch", "android"), Step("restore", "ios")>>

\* a main that patches the Android background before it restores the
\* adaptive-icon directories
MainSteps_patchFirst(v) ==
    <<Step("ensureDir", "assets"), Step("ensureDir", "temp"),
      Step("findInputIcon", ""),
      Step("prompt", "backgroundColor"), Step("prompt", "useGradient"),
      Step("prompt", "macOSShape"),
      Step("generate", "android"), Step("cli", "android"), Step("backup", "android"),
      Step("generate", "macos"), Step("moveTemp", "macos"),
      Step("generate", "ios"), Step("cli", "ios"), Step("backup", "ios"),
      Step("generate", "windows"), Step("cli", "windows"),
      Step("patch", "android"), Step("restore", "android"), Step("restore", "ios")>>

\* the statements of the try block of main, in source order
MainSteps(v) ==
    CASE v = "legacy" ->
           <<Step("ensureDir", "assets"), Step("ensureDir", "temp"),
             Step("findInputIcon", ""),
             Step("prompt", "backgroundColor"), Step("prompt", "macOSShape"),
             Step("generate", "android"), Step("cli", "android"), Step("backup", "android"),
             Step("generate", "macos"), Step("cli", "macos"), Step("moveIcns", "macos"),
             Step("generate", "ios"), Step("cli", "ios"), Step("backup", "ios"),
             Step("generate", "windows"), Step("cli", "windows"),
             Step("patch", "android"), Step("restore", "android"), Step("restore", "ios")>>
      [] v = "classes" ->
           <<Step("ensureDir", "assets"), Step("ensureDir", "temp"),
             Step("findInputIcon", ""),
             Step("prompt", "backgroundColor"), Step("prompt", "macOSShape"),
             Step("generate", "android"), Step("cli", "android"), Step("backup", "android"),
             Step("generate", "macos"), Step("moveTemp", "macos"),
             Step("generate", "ios"), Step("cli", "ios"), Step("backup", "ios"),
             Step("generate", "windows"), Step("cli", "windows"),
             Step("restore", "android"), Step("patch", "android"), Step("restore", "ios")>>
      [] OTHER ->
           <<Step("ensureDir", "assets"), Step("ensureDir", "temp"),
             Step("findInputIcon", ""),
             Step("prompt", "backgroundColor"), Step("prompt", "useGradient"),
             Step("prompt", "macOSShape"),
             Step("generate", "android"), Step("cli", "android"), Step("backup", "android"),
             Step("generate", "macos"), Step("moveTemp", "macos"),
             Step("generate", "ios"), Step("cli", "ios"), Step("backup", "ios"),
             Step("generate", "windows"), Step("cli", "windows"),
             Step("restore", "android"), Step("patch", "android"), Step("restore", "ios")>>

\* the statement main is about to execute
Current == MainSteps(variant)[ip]

At(op) == pc = "main" /\ ip \in DOMAIN MainSteps(variant) /\ Current.op = op

\* after a statement completes normally: the next statement, or the finally
\* block after the last one
Proceed ==
    /\ ip' = ip + 1
    /\ pc' = IF ip = Len(MainSteps(variant)) THEN "finally" ELSE "main"

\* a statement throws: control goes to the catch block
Raise == pc' = "catch" /\ ip' = ip

Event(op, p, path) == [op |-> op, p |-> p, path |-> path]
Logged(e) == log' = Append(log, e)

\* findInputIcon: the first candidate that exists; <<>> stands for the throw
RECURSIVE findInputIconFrom(_, _)
findInputIconFrom(f, i) ==
    IF i > Len(candidates)
    THEN <<>>
    ELSE IF existsSync(f, join(ASSETS_DIR, candidates[i]))
         THEN join(ASSETS_DIR, candidates[i])
         ELSE findInputIconFrom(f, i + 1)

\* a findInputIcon that falls back to a fixed path instead of throwing
findInputIcon_fallback(f) ==
    IF findInputIconFrom(f, 1) = <<>>
    THEN join(ASSETS_DIR, "icon.png")
    ELSE findInputIconFrom(f, 1)

\* a findInputIcon that prefers the PNG to the other candidates
findInputIcon_pngFirst(f) ==
    IF existsSync(f, join(ASSETS_DIR, "icon.png"))
    THEN join(ASSETS_DIR, "icon.png")
    ELSE findInputIconFrom(f, 1)

findInputIcon(f) == findInputIconFrom(f, 1)

BackgroundColors == {"#171717", "#FFFFFF", "#808080"}
MacOSShapes == {"rounded-rectangle", "squircle"}
NoOptions == [backgroundColor |-> "", useGradient |-> FALSE, macOSShape |-> ""]

\* a replace with a global regular expression: every match is rewritten
replaceColor_all(xmlContent, hexColor) ==
    [i \in DOMAIN xmlContent |->
        IF i \in colorNodes(xmlContent)
        THEN [xmlContent[i] EXCEPT !.text = hexColor]
        ELSE xmlContent[i]]

\* xmlContent.replace(/(<color name="ic_launcher_background">).*?(<\/color>)/,
\* `$1${hexColor}$2`): the text between the first opening tag and the
\* closing tag that follows it becomes hexColor; without a match the string
\* is returned as it is
replaceColor(xmlContent, hexColor) ==
    IF colorNodes(xmlContent) = {}
    THEN xmlContent
    ELSE LET first == CHOOSE i \in colorNodes(xmlContent) :
                          \A j \in colorNodes(xmlContent) : i <= j
         IN  [xmlContent EXCEPT ![first].text = hexColor]

\* updateAdaptiveIconBackground(oldReference, newReference): the content of
\* a descriptor is the background reference it holds
RECURSIVE repoint(_, _, _, _)
repoint(f, iconFiles, oldReference, newReference) ==
    IF iconFiles = {}
    THEN f
    ELSE LET iconPath == CHOOSE x \in iconFiles : TRUE
         IN  repoint(
                 IF ~existsSync(f, iconPath)
                 THEN f
                 ELSE writeFileSync(f, iconPath,
                          IF f.files[iconPath] = oldReference
                          THEN newReference
                          ELSE f.files[iconPath]),
                 iconFiles \ {iconPath}, oldReference, newReference)

updateAdaptiveIconBackground(f, oldReference, newReference) ==
    repoint(f, AndroidDescriptorOutputs, oldReference, newReference)

\* updateAndroidBackgroundColor (generate-icons.ts) and the
\* AndroidHandler.updateBackgroundColor that only rewrites the color
rewriteBackgroundColor(f, hexColor) ==
    IF ~existsSync(f, ANDROID_BACKGROUND_XML)
    THEN f
    ELSE writeFileSync(f, ANDROID_BACKGROUND_XML,
                       replaceColor(f.files[ANDROID_BACKGROUND_XML], hexColor))

\* updateBackgroundColor with the descriptors pointed back at the color
updateBackgroundColor(f, hexColor) ==
    IF ~existsSync(f, ANDROID_BACKGROUND_XML)
    THEN f
    ELSE updateAdaptiveIconBackground(
             rewriteBackgroundColor(f, hexColor),
             "@drawable/ic_launcher_background", "@color/ic_launcher_background")

\* setupGradientBackground: the drawable's content is the base color it is
\* generated from
setupGradientBackground(f, baseColor) ==
    updateAdaptiveIconBackground(
        writeFileSync(
            ensureDirectoryExists(f, join(ANDROID_RES_DIR, "drawable")),
            ANDROID_RES_DIR \o <<"drawable", "ic_launcher_background.xml">>,
            baseColor),
        "@color/ic_launcher_background", "@drawable/ic_launcher_background")

\* a patch step that ignores the gradient option
applyAndroidBackground_colorOnly(v, f, o) ==
    IF v = "gradient"
    THEN updateBackgroundColor(f, o.backgroundColor)
    ELSE rewriteBackgroundColor(f, o.backgroundColor)

\* the background patch main applies
applyAndroidBackground(v, f, o) ==
    CASE v = "gradient" ->
           IF o.useGradient
           THEN setupGradientBackground(f, o.backgroundColor)
           ELSE updateBackgroundColor(f, o.backgroundColor)
      [] OTHER -> rewriteBackgroundColor(f, o.backgroundColor)

\* the backup main takes for a platform
platformBackup(v, f, p) ==
    CASE v = "legacy" /\ p = "android" -> backupAndroidAdaptiveIcons(f)
      [] v = "legacy" /\ p = "ios" -> legacyBackupIOSIcons(f)
      [] v # "legacy" /\ p = "android" -> backupAndroidAdaptive(f)
      [] OTHER -> backupIOSIcons(f)

\* a main that leaves the platform directories as the last command wrote them
platformRestore_skipped(v, f, p) == Ok(f)

\* the restore main performs for a platform
platformRestore(v, f, p) ==
    CASE v = "legacy" /\ p = "android" -> restoreAndroidAdaptiveIcons(f)
      [] v = "legacy" /\ p = "ios" -> legacyRestoreIOSIcons(f)
      [] v # "legacy" /\ p = "android" -> restoreAndroidAdaptive(f)
      [] OTHER -> restoreIOSIcons(f)

\* where the backup of a platform is kept
backupPathOf(v, p) ==
    CASE v = "legacy" /\ p = "android" -> resolveTemporaryPath("icon-android-backup")
      [] v = "legacy" /\ p = "ios" -> resolveTemporaryPath("icon-ios-backup")
      [] v # "legacy" /\ p = "android" -> resolveTemporaryPath("android-adaptive")
      [] OTHER -> resolveTemporaryPath("ios-icons")

\* the live directories a platform's backup protects
liveDirsOf(p) ==
    IF p = "android"
    THEN {join(ANDROID_RES_DIR, androidAdaptiveDirs[i]) : i \in DOMAIN androidAdaptiveDirs}
    ELSE {IOS_ICONS_DIR}

-----------------------------------------------------------------------------
(* The steps of main.                                                      *)

MaxRuns == 2

EnsureDir ==
    /\ At("ensureDir")
    /\ fs' = ensureDirectoryExists(fs, IF Current.p = "assets" THEN ASSETS_DIR ELSE TEMP_DIR)
    /\ Proceed
    /\ Logged(Event("ensureDir", Current.p, <<>>))
    /\ UNCHANGED <<variant, opts, inputIcon, inflight, exitCode, runs>>
    /\ UNCHANGED <<helperVars, calcVars, prior, appVars>>

FindInputIcon ==
    /\ At("findInputIcon")
    /\ inputIcon' = findInputIcon(fs)
    /\ IF inputIcon' = <<>> THEN Raise ELSE Proceed
    /\ Logged(Event("findInputIcon", "", inputIcon'))
    /\ UNCHANGED <<variant, fs, opts, inflight, exitCode, runs>>
    /\ UNCHANGED <<helperVars, calcVars, prior, appVars>>

\* a prompt is answered, or the user aborts it and it throws
Prompt ==
    /\ At("prompt")
    /\ Logged(Event("prompt", Current.p, <<>>))
    /\ \/ /\ Current.p = "backgroundColor"
          /\ \E c \in BackgroundColors : opts' = [opts EXCEPT !.backgroundColor = c]
          /\ Proceed
       \/ /\ Current.p = "useGradient"
          /\ \E g \in BOOLEAN : opts' = [opts EXCEPT !.useGradient = g]
          /\ Proceed
       \/ /\ Current.p = "macOSShape"
          /\ \E m \in MacOSShapes : opts' = [opts EXCEPT !.macOSShape = m]
          /\ Proceed
       \/ /\ opts' = opts
          /\ Raise
    /\ UNCHANGED <<variant, fs, inputIcon, inflight, exitCode, runs>>
    /\ UNCHANGED <<helperVars, calcVars, prior, appVars>>

\* createPaddedIcon / createIconWithBackground / createMacOSIcon write the
\* platform's temporary PNG, or the image library throws
Generate ==
    /\ At("generate")
    /\ \/ /\ existsSync(fs, inputIcon)
          /\ existsSync(fs, TEMP_DIR)
          /\ fs' = writeFileSync(fs, tempIconPath(Current.p), Current.p)
          /\ Logged(Event("generate", Current.p, tempIconPath(Current.p)))
          /\ Proceed
       \/ /\ fs' = fs
          /\ Logged(Event("generateFailed", Current.p, tempIconPath(Current.p)))
          /\ Raise
    /\ UNCHANGED <<variant, opts, inputIcon, inflight, exitCode, runs>>
    /\ UNCHANGED <<helperVars, calcVars, prior, appVars>>

\* a runCommand whose promise is not awaited
runCommand_notAwaited == FALSE

\* runCommand: `await execAsync(command)` / execSync(command)
runCommand_awaits == TRUE

CliStart ==
    /\ At("cli")
    /\ inflight' = inflight \cup {Event("cli", Current.p, tempIconPath(Current.p))}
    /\ Logged(Event("cli", Current.p, tempIconPath(Current.p)))
    /\ IF runCommand_awaits THEN pc' = "await" /\ ip' = ip ELSE Proceed
    /\ UNCHANGED <<variant, fs, opts, inputIcon, exitCode, runs>>
    /\ UNCHANGED <<helperVars, calcVars, prior, appVars>>

\* an error of the command that is swallowed
afterCommand_swallowed(ok) == TRUE

\* what main does when the command has ended: go on, or throw on failure
afterCommand(ok) == ok

\* the command ends: with status 0 after rewriting the icon tree, or with a
\* failure (it cannot succeed without its input image)
CliComplete ==
    \E c \in inflight :
        /\ inflight' = inflight \ {c}
        /\ \/ /\ isFile(fs, c.path)
              /\ fs' = tauriIcon(fs, c.path)
              /\ Logged(Event("cliOk", c.p, c.path))
              /\ IF pc = "await"
                 THEN IF afterCommand(TRUE) THEN Proceed ELSE Raise
                 ELSE UNCHANGED <<pc, ip>>
           \/ /\ fs' = fs
              /\ Logged(Event("cliFailed", c.p, c.path))
              /\ IF pc = "await"
                 THEN IF afterCommand(FALSE) THEN Proceed ELSE Raise
                 ELSE UNCHANGED <<pc, ip>>
        /\ UNCHANGED <<variant, opts, inputIcon, exitCode, runs>>
        /\ UNCHANGED <<helperVars, calcVars, prior, appVars>>

Backup ==
    /\ At("backup")
    /\ LET r == platformBackup(variant, fs, Current.p)
       IN  /\ fs' = r.fs
           /\ IF r.threw THEN Raise ELSE Proceed
    /\ Logged(Event("backup", Current.p, backupPathOf(variant, Current.p)))
    /\ UNCHANGED <<variant, opts, inputIcon, inflight, exitCode, runs>>
    /\ UNCHANGED <<helperVars, calcVars, prior, appVars>>

\* generate-icons.ts: if (fs.existsSync(GENERATED_ICNS)) moveFile(GENERATED_ICNS, MACOS_ICNS)
MoveIcns ==
    /\ At("moveIcns")
    /\ fs' = IF existsSync(fs, GENERATED_ICNS)
             THEN renameSync(ensureDirectoryExists(fs, dirname(MACOS_ICNS)),
                             GENERATED_ICNS, MACOS_ICNS)
             ELSE fs
    /\ Proceed
    /\ Logged(Event("move", Current.p, GENERATED_ICNS))
    /\ UNCHANGED <<variant, opts, inputIcon, inflight, exitCode, runs>>
    /\ UNCHANGED <<helperVars, calcVars, prior, appVars>>

\* the class-based scripts: the path returned by generatePlatformIcons (the
\* temporary PNG) is moved to icon.macOS.icns
MoveTemp ==
    /\ At("moveTemp")
    /\ fs' = IF existsSync(fs, tempIconPath(Current.p))
             THEN renameSync(ensureDirectoryExists(fs, dirname(MACOS_ICNS)),
                             tempIconPath(Current.p), MACOS_ICNS)
             ELSE fs
    /\ Proceed
    /\ Logged(Event("move", Current.p, tempIconPath(Current.p)))
    /\ UNCHANGED <<variant, opts, inputIcon, inflight, exitCode, runs>>
    /\ UNCHANGED <<helperVars, calcVars, prior, appVars>>

Restore ==
    /\ At("restore")
    /\ LET r == platformRestore(variant, fs, Current.p)
       IN  /\ fs' = r.fs
           /\ IF r.threw THEN Raise ELSE Proceed
    /\ Logged(Event("restore", Current.p, backupPathOf(variant, Current.p)))
    /\ UNCHANGED <<variant, opts, inputIcon, inflight, exitCode, runs>>
    /\ UNCHANGED <<helperVars, calcVars, prior, appVars>>

Patch ==
    /\ At("patch")
    /\ fs' = applyAndroidBackground(variant, fs, opts)
    /\ Proceed
    /\ Logged(Event("patch", Current.p, <<>>))
    /\ UNCHANGED <<variant, opts, inputIcon, inflight, exitCode, runs>>
    /\ UNCHANGED <<helperVars, calcVars, prior, appVars>>

\* a catch block that returns instead of ending the process
catchExits_returns == FALSE

\* the catch block ends with process.exit(1), which does not return: the
\* finally block is not run
catchExits == TRUE

Catch ==
    /\ pc = "catch"
    /\ Logged(Event("catch", "", <<>>))
    /\ IF catchExits
       THEN pc' = "exited" /\ exitCode' = 1
       ELSE pc' = "finally" /\ exitCode' = exitCode
    /\ UNCHANGED <<variant, ip, fs, opts, inputIcon, inflight, runs>>
    /\ UNCHANGED <<helperVars, calcVars, prior, appVars>>

\* the finally block: the class-based scripts remove the temporary
\* directory; in generate-icons.ts the removal is commented out
cleanup(v, f) ==
    IF v # "legacy" /\ existsSync(f, TEMP_DIR) THEN rmSync(f, TEMP_DIR) ELSE f

Finally ==
    /\ pc = "finally"
    /\ fs' = cleanup(variant, fs)
    /\ Logged(Event("cleanup", "", TEMP_DIR))
    /\ pc' = "done"
    /\ exitCode' = 0
    /\ UNCHANGED <<variant, ip, opts, inputIcon, inflight, runs>>
    /\ UNCHANGED <<helperVars, calcVars, prior, appVars>>

\* the script is run again on the file system the previous run left
Outcome(succeeded, options, icon, f) ==
    [succeeded |-> succeeded, opts |-> options, inputIcon |-> icon, fs |-> f]

NoOutcome == Outcome(FALSE, NoOptions, <<>>, EmptyFs)

NewRun ==
    /\ pc \in {"done", "exited"}
    /\ inflight = {}
    /\ runs < MaxRuns
    /\ runs' = runs + 1
    /\ pc' = "main"
    /\ ip' = 1
    /\ opts' = NoOptions
    /\ inputIcon' = <<>>
    /\ exitCode' = -1
    /\ log' = <<>>
    /\ prior' = IF pc = "done" /\ exitCode = 0
                THEN Outcome(TRUE, opts, inputIcon, fs)
                ELSE NoOutcome
    /\ UNCHANGED <<variant, fs, inflight>>
    /\ UNCHANGED <<helperVars, calcVars, appVars>>

\* between two runs the developer removes a generated mobile project (to
\* scaffold it anew, or because the platform is dropped); the script is
\* then run on what is left, assets/.temp-icons included
ProjectRemoved ==
    /\ pc \in {"done", "exited"}
    /\ inflight = {}
    /\ runs < MaxRuns
    /\ \E d \in {ANDROID_RES_DIR, IOS_ICONS_DIR} :
          /\ existsSync(fs, d)
          /\ fs' = rmSync(fs, d)
    /\ runs' = runs + 1
    /\ pc' = "main"
    /\ ip' = 1
    /\ opts' = NoOptions
    /\ inputIcon' = <<>>
    /\ exitCode' = -1
    /\ log' = <<>>
    /\ prior' = NoOutcome
    /\ UNCHANGED <<variant, inflight>>
    /\ UNCHANGED <<helperVars, calcVars, appVars>>

-----------------------------------------------------------------------------
(* Initial file systems.                                                   *)

IconSets == {{}, {"icon.png"}, {"icon.svg", "icon.jpeg"}, {"icon.jpg"}}

withIcons(f, names) ==
    IF names = {}
    THEN f
    ELSE writeAll(f, {join(ASSETS_DIR, n) : n \in names}, "source")

\* a project whose icons were generated before: the desktop bundle with a
\* hand-maintained file, and the mobile projects where they were scaffolded
withProject(f, android, ios) ==
    LET f1 == writeAll(writeAll(f, DesktopOutputs, "old"),
                       {join(TAURI_ICONS_DIR, "icon.ico")}, "hand")
        f2 == IF android
              THEN writeAll(
                       writeAll(writeAll(f1, AndroidImageOutputs, "old"),
                                AndroidDescriptorOutputs, "@color/ic_launcher_background"),
                       {ANDROID_BACKGROUND_XML}, ColorResource("#old"))
              ELSE f1
    IN  IF ios
        THEN writeAll(writeAll(f2, IOSOutputs, "old"),
                      {join(IOS_ICONS_DIR, "Contents.json")}, "hand")
        ELSE f2

HelperIdle ==
    /\ hs = "none"
    /\ hfs = EmptyFs
    /\ hpre = EmptyFs
    /\ hlast = "none"
    /\ hsteps = 0
    /\ calls = <<>>

Init ==
    /\ variant \in Variants
    /\ pc = "main"
    /\ ip = 1
    /\ \E names \in IconSets, android \in BOOLEAN, ios \in BOOLEAN :
           fs = withProject(withIcons(EmptyFs, names), android, ios)
    /\ opts = NoOptions
    /\ inputIcon = <<>>
    /\ inflight = {}
    /\ exitCode = -1
    /\ log = <<>>
    /\ runs = 1
    /\ prior = NoOutcome
    /\ AppMounted
    /\ HelperIdle

Next ==
    \/ EnsureDir
    \/ FindInputIcon
    \/ Prompt
    \/ Generate
    \/ CliStart
    \/ CliComplete
    \/ Backup
    \/ MoveIcns
    \/ MoveTemp
    \/ Restore
    \/ Patch
    \/ Catch
    \/ Finally
    \/ NewRun
    \/ ProjectRemoved

Spec == Init /\ [][Next]_vars

-----------------------------------------------------------------------------
(* Properties of the orchestrator.                                         *)

Ended == pc \in {"done", "exited"}

Ops(op) == {i \in DOMAIN log : log[i].op = op}
OpsOf(op, p) == {i \in DOMAIN log : log[i].op = op /\ log[i].p = p}
CliOps == Ops("cli") \cup Ops("cliOk") \cup Ops("cliFailed")

NoInputIcon ==
    \A i \in DOMAIN candidates : ~existsSync(fs, join(ASSETS_DIR, candidates[i]))

Platforms == {"android", "macos", "ios", "windows"}

\* C1: on every path by which a run terminates, the temporary directory
\* assets/.temp-icons has been removed by the time the process exits.
C1_TempRemovedOnEveryExit == Ended => ~existsSync(fs, TEMP_DIR)

\* C2: when none of the four candidate icons exists, the run ends with a
\* non-zero exit status, and it issues no prompt, writes no temporary icon,
\* never invokes the external CLI and performs no backup, restore or patch.
C2_MissingIconAbortsBeforeGeneration ==
    NoInputIcon =>
        /\ \A i \in DOMAIN log :
               log[i].op \in {"ensureDir", "findInputIcon", "catch"}
        /\ \A p \in Platforms : ~existsSync(fs, tempIconPath(p))
        /\ inflight = {}
        /\ pc # "done"
        /\ pc = "exited" => exitCode = 1

C2_Witness == NoInputIcon /\ pc = "exited" /\ Ops("findInputIcon") # {}

\* C3: once an external CLI invocation has failed, no later platform's icon
\* is generated, the CLI is not invoked again, nothing is restored or
\* patched, and the process exits with a non-zero status.
C3_CliFailureAbortsRun ==
    \A i \in Ops("cliFailed") :
        /\ \A j \in (i + 1)..Len(log) : log[j].op = "catch"
        /\ inflight = {}
        /\ pc \in {"catch", "exited"}
        /\ pc = "exited" => exitCode = 1

C3_Witness ==
    /\ pc = "exited"
    /\ OpsOf("cliFailed", "ios") # {}
    /\ OpsOf("backup", "android") # {}

\* C4 as claimed: every backup made in a run is created before the first
\* external CLI invocation of that run, and it is restored only after the
\* CLI invocations.
C4_BackupsPrecedeFirstCli ==
    /\ \A i \in Ops("backup") : \A j \in CliOps : i < j
    /\ \A i \in Ops("restore") : \A j \in CliOps : j < i

\* the files of a platform's live directories are in its backup, unchanged
SnapshotCurrent(p) ==
    \A d \in liveDirsOf(p) : \A q \in FilesUnder(fs, d) :
        LET b == Rebase(q, IF p = "android" THEN ANDROID_RES_DIR ELSE IOS_ICONS_DIR,
                        backupPathOf(variant, p))
        IN  isFile(fs, b) /\ fs.files[b] = fs.files[q]

\* the images of a platform that are in its backup were generated from the
\* platform's own temporary icon
SnapshotFromOwnIcon(p) ==
    \A q \in (IF p = "android" THEN AndroidImageOutputs ELSE IOSOutputs) :
        LET b == Rebase(q, IF p = "android" THEN ANDROID_RES_DIR ELSE IOS_ICONS_DIR,
                        backupPathOf(variant, p))
        IN  isFile(fs, b) => fs.files[b] = p

\* C4 as amended: every backup is created right after the platform's own
\* CLI invocation has succeeded and before any other one starts, so it holds
\* the directory as that invocation generated it from the platform's
\* temporary icon; it is restored only after the last CLI invocation.
C4_BackupFollowsOwnCli ==
    /\ \A i \in Ops("backup") :
           /\ i > 1
           /\ log[i - 1].op = "cliOk"
           /\ log[i - 1].p = log[i].p
    /\ (log # <<>> /\ log[Len(log)].op = "backup") =>
           /\ SnapshotCurrent(log[Len(log)].p)
           /\ SnapshotFromOwnIcon(log[Len(log)].p)
    /\ \A i \in Ops("restore") :
           /\ \A j \in CliOps : j < i
           /\ \A p \in {"android", "ios", "windows"} : OpsOf("cliOk", p) # {}

C4_Witness ==
    /\ log # <<>>
    /\ log[Len(log)].op = "backup"
    /\ log[Len(log)].p = "ios"
    /\ isFile(fs, join(backupPathOf(variant, "ios"), "AppIcon-512@2x.png"))
    /\ OpsOf("backup", "android") # {}

\* C5: in a successful run the external CLI is invoked exactly once for
\* each platform whose temporary icon is generated, after that icon has
\* been written and with its path as the argument.
C5_CliOncePerGeneratedPlatform ==
    pc = "done" =>
        \A p \in Platforms :
            OpsOf("generate", p) # {} =>
                /\ Cardinality(OpsOf("cli", p)) = 1
                /\ \A g \in OpsOf("generate", p), c \in OpsOf("cli", p) :
                       g < c /\ log[c].path = log[g].path

\* C6: at most one external CLI invocation is in progress at any time, and
\* while one is in progress main is suspended on it: no other step (the
\* next platform's generation, a backup, a restore, the cleanup) runs.
C6_OneCliAtATime ==
    /\ Cardinality(inflight) <= 1
    /\ inflight # {} => pc = "await"

C6_Witness == inflight # {} /\ Ops("cliOk") # {} /\ pc = "await"

\* C7: when the finally block removes the temporary root, every backup
\* created in the run has been restored before.
C7_BackupsRestoredBeforeCleanup ==
    \A i \in Ops("cleanup") : \A j \in Ops("backup") :
        j < i /\ \E k \in OpsOf("restore", log[j].p) : j < k /\ k < i

C7_Witness ==
    /\ Ops("cleanup") # {}
    /\ OpsOf("backup", "ios") # {}
    /\ ~existsSync(fs, TEMP_DIR)
    /\ isFile(fs, join(IOS_ICONS_DIR, "AppIcon-512@2x.png"))
    /\ fs.files[join(IOS_ICONS_DIR, "AppIcon-512@2x.png")] = "ios"

\* C12 (as stated): in every variant the Android background patch is applied
\* after the Android adaptive-icon restore and never before it.
C12_PatchAfterRestore ==
    \A i \in OpsOf("patch", "android") :
        /\ OpsOf("restore", "android") # {}
        /\ \A j \in OpsOf("restore", "android") : j < i

\* what the patch of this run wrote is still in place
PatchedFilesIntact ==
    IF variant = "gradient" /\ opts.useGradient
    THEN /\ isFile(fs, ANDROID_RES_DIR \o <<"drawable", "ic_launcher_background.xml">>)
         /\ fs.files[ANDROID_RES_DIR \o <<"drawable", "ic_launcher_background.xml">>]
               = opts.backgroundColor
         /\ \A d \in AndroidDescriptorOutputs :
                isFile(fs, d) => fs.files[d] = "@drawable/ic_launcher_background"
    ELSE isFile(fs, ANDROID_BACKGROUND_XML) =>
             /\ fs.files[ANDROID_BACKGROUND_XML] = ColorResource(opts.backgroundColor)
             /\ \A d \in AndroidDescriptorOutputs :
                    isFile(fs, d) => fs.files[d] = "@color/ic_launcher_background"

\* C12 (amended): the class-based variants apply the Android background
\* patch after the adaptive-icon restore; generate-icons.ts applies it before
\* the restore, where it writes values/ic_launcher_background.xml only, a
\* file outside the restored directories. In every variant, once the patch
\* and the restore have both run, the files the patch wrote hold what it
\* wrote: the restore has not overwritten a patched file.
C12_RestoreKeepsPatchedFiles ==
    /\ \A i \in OpsOf("patch", "android"), j \in OpsOf("restore", "android") :
           IF variant = "legacy" THEN i < j ELSE j < i
    /\ (variant # "legacy" /\ OpsOf("patch", "android") # {}) =>
           OpsOf("restore", "android") # {}
    /\ (OpsOf("patch", "android") # {} /\ OpsOf("restore", "android") # {}) =>
           PatchedFilesIntact

\* generate-icons.ts has patched the color file and then restored the
\* adaptive-icon directories over a project that has them
C12_Witness ==
    /\ variant = "legacy"
    /\ pc = "done"
    /\ \E i \in OpsOf("patch", "android"), j \in OpsOf("restore", "android") : i < j
    /\ isFile(fs, ANDROID_BACKGROUND_XML)
    /\ fs.files[ANDROID_BACKGROUND_XML] = ColorResource(opts.backgroundColor)
    /\ \A d \in AndroidDescriptorOutputs : isFile(fs, d)

\* the run has reached the end of main without an error
Succeeded == pc = "done" /\ exitCode = 0

\* the images the external CLI generated for a platform that has a project
\* are in place and were generated from the platform's own temporary icon
HoldsOwnImages(p) ==
    \A q \in (IF p = "android" THEN AndroidImageOutputs ELSE IOSOutputs) :
        /\ OpsOf("backup", p) # {} /\ existsSync(fs, dirname(q)) => isFile(fs, q)
        /\ isFile(fs, q) => fs.files[q] = p

\* the adaptive-icon descriptors are as the external CLI generated them,
\* but for the background reference the gradient setup points at its drawable
HoldsGeneratedDescriptors ==
    \A d \in AndroidDescriptorOutputs :
        isFile(fs, d) =>
            fs.files[d] = IF variant = "gradient" /\ opts.useGradient
                          THEN "@drawable/ic_launcher_background"
                          ELSE "@color/ic_launcher_background"

SameRunAgain ==
    /\ pc = "done"
    /\ exitCode = 0
    /\ prior.succeeded
    /\ prior.opts = opts
    /\ prior.inputIcon = inputIcon

liveRootOf(p) == IF p = "android" THEN ANDROID_RES_DIR ELSE IOS_ICONS_DIR

\* the files of a platform's backup that have no file of the live
\* directory behind them: no backup of this run copied them
StaleFiles(p) ==
    {b \in FilesUnder(fs, backupPathOf(variant, p)) :
        ~isFile(fs, Rebase(b, backupPathOf(variant, p), liveRootOf(p)))}

\* C28: across any sequence of runs, the failed ones included, a backup
\* directory holds at restore time only files copied from the live
\* directory during the current run: no file that an earlier run left under
\* assets/.temp-icons is restored into a platform directory.
C28_NoStaleBackupRestored ==
    At("restore") => StaleFiles(Current.p) = {}

-----------------------------------------------------------------------------
(* The helpers on their own: a backup / restore pair is applied, in any    *)
(* order and any number of times, to live directories that change in       *)
(* between (specification SpecFs).                                         *)

MaxHelperSteps == 5
ModifiedAdaptiveDirs == 2

HelperPairs ==
    {"file", "FileManager", "ios", "android", "windows", "legacy-ios", "legacy-android"}

SCRATCH_DIR == <<"D">>

\* the live directories a pair protects
LiveDirs(h) ==
    CASE h \in {"file", "FileManager"} -> {SCRATCH_DIR}
      [] h \in {"ios", "legacy-ios"} -> {IOS_ICONS_DIR}
      [] h = "windows" -> {TAURI_ICONS_DIR}
      [] OTHER -> liveDirsOf("android")

\* the live directories that are changed between the calls
ChangedDirs(h) ==
    IF h \in {"android", "legacy-android"}
    THEN {join(ANDROID_RES_DIR, androidAdaptiveDirs[i]) : i \in 1..ModifiedAdaptiveDirs}
    ELSE LiveDirs(h)

FileNames(h) ==
    CASE h \in {"file", "FileManager"} -> {"a", "b", "c", "d"}
      [] h \in {"ios", "legacy-ios"} -> {"AppIcon-512@2x.png", "Contents.json"}
      [] h = "windows" -> {"icon.icns", "icon.macOS.icns", "icon.png"}
      [] OTHER -> {"ic_launcher.png"}

\* where the backup of a live directory is kept
BackupOf(h, d) ==
    CASE h \in {"file", "FileManager"} -> resolveTemporaryPath("D")
      [] h = "ios" -> resolveTemporaryPath("ios-icons")
      [] h = "legacy-ios" -> resolveTemporaryPath("icon-ios-backup")
      [] h = "windows" -> resolveTemporaryPath("windows-icons")
      [] h = "android" -> join(resolveTemporaryPath("android-adaptive"), d[Len(d)])
      [] OTHER -> join(resolveTemporaryPath("icon-android-backup"), d[Len(d)])

helperBackup(h, f) ==
    CASE h = "file" -> backup(f, SCRATCH_DIR, BackupOf(h, SCRATCH_DIR))
      [] h = "FileManager" -> backup(f, SCRATCH_DIR, BackupOf(h, SCRATCH_DIR))
      [] h = "ios" -> backupIOSIcons(f)
      [] h = "legacy-ios" -> legacyBackupIOSIcons(f)
      [] h = "windows" -> backupWindowsIcons(f)
      [] h = "android" -> backupAndroidAdaptive(f)
      [] OTHER -> backupAndroidAdaptiveIcons(f)

helperRestore(h, f) ==
    CASE h = "file" -> restore(f, BackupOf(h, SCRATCH_DIR), SCRATCH_DIR)
      [] h = "FileManager" -> FileManager_restore(f, BackupOf(h, SCRATCH_DIR), SCRATCH_DIR)
      [] h = "ios" -> restoreIOSIcons(f)
      [] h = "legacy-ios" -> legacyRestoreIOSIcons(f)
      [] h = "windows" -> restoreWindowsIcons(f)
      [] h = "android" -> restoreAndroidAdaptive(f)
      [] OTHER -> restoreAndroidAdaptiveIcons(f)

Call(op, threw) == [op |-> op, threw |-> threw]

HBackup ==
    /\ hsteps < MaxHelperSteps
    /\ hfs' = helperBackup(hs, hfs).fs
    /\ hlast' = Call("backup", helperBackup(hs, hfs).threw)
    /\ hpre' = hfs
    /\ hsteps' = hsteps + 1
    /\ UNCHANGED hs
    /\ UNCHANGED <<orchVars, calcVars, appVars>>

HRestore ==
    /\ hsteps < MaxHelperSteps
    /\ hfs' = helperRestore(hs, hfs).fs
    /\ hlast' = Call("restore", helperRestore(hs, hfs).threw)
    /\ hpre' = hfs
    /\ hsteps' = hsteps + 1
    /\ UNCHANGED hs
    /\ UNCHANGED <<orchVars, calcVars, appVars>>

\* between the calls the live directories change: a file is written or
\* removed, a directory is removed or created
HModify ==
    /\ hsteps < MaxHelperSteps
    /\ \E d \in ChangedDirs(hs) :
          \/ \E n \in FileNames(hs) :
                hfs' = writeFileSync(mkdirSync(hfs, d), join(d, n), "v2")
          \/ \E n \in FileNames(hs) :
                /\ isFile(hfs, join(d, n))
                /\ hfs' = rmSync(hfs, join(d, n))
          \/ /\ existsSync(hfs, d)
             /\ hfs' = rmSync(hfs, d)
          \/ /\ ~existsSync(hfs, d)
             /\ hfs' = mkdirSync(hfs, d)
    /\ hlast' = Call("modify", FALSE)
    /\ hpre' = hfs
    /\ hsteps' = hsteps + 1
    /\ UNCHANGED hs
    /\ UNCHANGED <<orchVars, calcVars, appVars>>

\* the temporary root is removed, as at the end of a run
HCleanup ==
    /\ hsteps < MaxHelperSteps
    /\ existsSync(hfs, TEMP_DIR)
    /\ hfs' = rmSync(hfs, TEMP_DIR)
    /\ hlast' = Call("cleanup", FALSE)
    /\ hpre' = hfs
    /\ hsteps' = hsteps + 1
    /\ UNCHANGED hs
    /\ UNCHANGED <<orchVars, calcVars, appVars>>

OrchIdle ==
    /\ variant = "legacy"
    /\ pc = "done"
    /\ ip = 1
    /\ fs = EmptyFs
    /\ opts = NoOptions
    /\ inputIcon = <<>>
    /\ inflight = {}
    /\ exitCode = 0
    /\ log = <<>>
    /\ runs = MaxRuns
    /\ prior = NoOutcome
    /\ AppMounted

\* the live directories that exist hold version "v1" of some of their files
InitFs ==
    /\ OrchIdle
    /\ hs \in HelperPairs
    /\ \E present \in SUBSET ChangedDirs(hs), rest \in BOOLEAN, names \in SUBSET FileNames(hs) :
          hfs = writeAll(
                    [dirs |-> present \cup
                                (IF rest THEN LiveDirs(hs) \ ChangedDirs(hs) ELSE {}),
                     files |-> [q \in {} |-> ""]],
                    {join(d, n) : d \in present, n \in names}, "v1")
    /\ hpre = hfs
    /\ hlast = Call("none", FALSE)
    /\ hsteps = 0
    /\ calls = <<>>

NextFs ==
    \/ HBackup
    \/ HRestore
    \/ HModify
    \/ HCleanup

SpecFs == InitFs /\ [][NextFs]_vars

-----------------------------------------------------------------------------
(* Properties of the helpers.                                              *)

\* what a file system holds at and under a path
View(f, d) ==
    [dirs |-> DirsUnder(f, d), files |-> [q \in FilesUnder(f, d) |-> f.files[q]]]

Restored == hlast.op = "restore"
BackedUp == hlast.op = "backup"

\* C8: restore writes every file of the backup into the live directory with
\* its backed-up content and neither deletes nor modifies a file that is not
\* in the backup; a backup into an empty location holds exactly the files of
\* the directory. (Backing up {a,b,c} and restoring over {a',d} gives
\* {a,b,c,d}.)
C8_RestoreMergesBackup ==
    /\ (Restored /\ hs \in {"file", "FileManager"}
          /\ existsSync(hpre, BackupOf(hs, SCRATCH_DIR))) =>
           /\ ~hlast.threw
           /\ \A n \in FileNames(hs) :
                  LET live == join(SCRATCH_DIR, n)
                      saved == join(BackupOf(hs, SCRATCH_DIR), n)
                  IN  IF isFile(hpre, saved)
                      THEN isFile(hfs, live) /\ hfs.files[live] = hpre.files[saved]
                      ELSE /\ isFile(hfs, live) <=> isFile(hpre, live)
                           /\ isFile(hfs, live) => hfs.files[live] = hpre.files[live]
           /\ View(hfs, BackupOf(hs, SCRATCH_DIR)) = View(hpre, BackupOf(hs, SCRATCH_DIR))
    /\ (BackedUp /\ hs \in {"file", "FileManager"}
          /\ existsSync(hpre, SCRATCH_DIR)
          /\ ~existsSync(hpre, BackupOf(hs, SCRATCH_DIR))) =>
           /\ ~hlast.threw
           /\ \A n \in FileNames(hs) :
                  LET live == join(SCRATCH_DIR, n)
                      saved == join(BackupOf(hs, SCRATCH_DIR), n)
                  IN  /\ isFile(hfs, saved) <=> isFile(hpre, live)
                      /\ isFile(hfs, saved) => hfs.files[saved] = hpre.files[live]
           /\ View(hfs, SCRATCH_DIR) = View(hpre, SCRATCH_DIR)

\* the round trip of the claim: the backup holds a, b, c as first written,
\* the directory held a modified a and a new d, and now holds a, b, c, d
C8_Witness ==
    /\ Restored
    /\ hs \in {"file", "FileManager"}
    /\ \A n \in {"a", "b", "c"} :
           /\ isFile(hpre, join(BackupOf(hs, SCRATCH_DIR), n))
           /\ hpre.files[join(BackupOf(hs, SCRATCH_DIR), n)] = "v1"
    /\ ~isFile(hpre, join(BackupOf(hs, SCRATCH_DIR), "d"))
    /\ FilesUnder(hpre, SCRATCH_DIR) = {join(SCRATCH_DIR, "a"), join(SCRATCH_DIR, "d")}
    /\ hpre.files[join(SCRATCH_DIR, "a")] = "v2"
    /\ hpre.files[join(SCRATCH_DIR, "d")] = "v2"
    /\ FilesUnder(hfs, SCRATCH_DIR) = {join(SCRATCH_DIR, n) : n \in {"a", "b", "c", "d"}}
    /\ \A n \in {"a", "b", "c"} : hfs.files[join(SCRATCH_DIR, n)] = "v1"
    /\ hfs.files[join(SCRATCH_DIR, "d")] = "v2"

\* C9: a backup whose source directory does not exist and a restore whose
\* backup does not exist raise no error and leave the live directory
\* unchanged; in particular they do not create it.
C9_MissingSourceIsNoOp ==
    \A d \in LiveDirs(hs) :
        /\ (BackedUp /\ ~existsSync(hpre, d)) =>
               /\ ~hlast.threw
               /\ ~existsSync(hfs, d)
               /\ View(hfs, d) = View(hpre, d)
        /\ (Restored /\ ~existsSync(hpre, BackupOf(hs, d))) =>
               /\ ~hlast.threw
               /\ existsSync(hfs, d) <=> existsSync(hpre, d)
               /\ View(hfs, d) = View(hpre, d)

C9_Witness ==
    /\ Restored
    /\ hs = "android"
    /\ \E d \in LiveDirs(hs) :
           /\ ~existsSync(hpre, BackupOf(hs, d))
           /\ existsSync(hpre, resolveTemporaryPath("android-adaptive"))
           /\ ~existsSync(hfs, d)
    /\ \E d \in LiveDirs(hs) : existsSync(hpre, BackupOf(hs, d))

\* C10: the windows-icons backup never contains icon.macOS.icns, so
\* restoreWindowsIcons leaves the live icon.macOS.icns as it was right before
\* the restore, while every file of the backup is restored.
C10_MacosIcnsNotRestored ==
    hs = "windows" =>
        /\ ~existsSync(hfs, join(BackupOf(hs, TAURI_ICONS_DIR), "icon.macOS.icns"))
        /\ ~hlast.threw
        /\ Restored =>
               /\ isFile(hfs, MACOS_ICNS) <=> isFile(hpre, MACOS_ICNS)
               /\ isFile(hfs, MACOS_ICNS) => hfs.files[MACOS_ICNS] = hpre.files[MACOS_ICNS]
               /\ \A q \in FilesUnder(hpre, BackupOf(hs, TAURI_ICONS_DIR)) :
                      LET live == Rebase(q, BackupOf(hs, TAURI_ICONS_DIR), TAURI_ICONS_DIR)
                      IN  isFile(hfs, live) /\ hfs.files[live] = hpre.files[q]

\* the live icon.macOS.icns was there when the backup was taken and was
\* changed afterwards like icon.icns; the restore brought back icon.icns only
C10_Witness ==
    /\ hs = "windows"
    /\ Restored
    /\ isFile(hpre, join(BackupOf(hs, TAURI_ICONS_DIR), "icon.icns"))
    /\ isFile(hpre, MACOS_ICNS) /\ hpre.files[MACOS_ICNS] = "v2"
    /\ isFile(hpre, GENERATED_ICNS) /\ hpre.files[GENERATED_ICNS] = "v2"
    /\ hfs.files[MACOS_ICNS] = "v2"
    /\ hfs.files[GENERATED_ICNS] = "v1"

-----------------------------------------------------------------------------
(* The Android background patch on its own: the patch step of main is      *)
(* applied, with the options of successive runs, to a res directory in     *)
(* any prior state (specification SpecRes).                                *)

MaxPatches == 2

COLOR_REFERENCE == "@color/ic_launcher_background"
DRAWABLE_REFERENCE == "@drawable/ic_launcher_background"
ANDROID_BACKGROUND_DRAWABLE == ANDROID_RES_DIR \o <<"drawable", "ic_launcher_background.xml">>

\* what a descriptor may hold before the patch; "" stands for no descriptor
DescriptorStates == {"", COLOR_REFERENCE, DRAWABLE_REFERENCE, "@mipmap/ic_launcher_background"}

\* what values/ic_launcher_background.xml may hold, the empty set where
\* there is no file: the file the CLI writes, files with other nodes before
\* and after the color, a file with a second node of the name, a file
\* without the node
ColorFileStates ==
    {{}, {ColorResource("#old")}, {NoColorNode},
     {<<OtherNode("<!-- launcher -->"), ColorNode("ic_launcher_background", "#old"),
        ColorNode("accent", "#336699")>>},
     {<<ColorNode("accent", "#336699"), ColorNode("ic_launcher_background", "#old"),
        ColorNode("ic_launcher_background", "#FFFFFF")>>}}

\* what drawable/ic_launcher_background.xml may hold; "" stands for no file
DrawableStates == {"", "#old"}

withFile(f, p, content) ==
    IF content = "" THEN f ELSE writeFileSync(mkdirSync(f, dirname(p)), p, content)

withDocument(f, p, documents) ==
    IF documents = {}
    THEN f
    ELSE writeFileSync(mkdirSync(f, dirname(p)), p, CHOOSE d \in documents : TRUE)

resDirectory(launcher, round, color, drawable) ==
    withDocument(
        withFile(
            withFile(
                withFile(EmptyFs,
                         ANDROID_RES_DIR \o <<androidAdaptiveDirs[1], "ic_launcher.xml">>,
                         launcher),
                ANDROID_RES_DIR \o <<androidAdaptiveDirs[1], "ic_launcher_round.xml">>,
                round),
            ANDROID_BACKGROUND_DRAWABLE, drawable),
        ANDROID_BACKGROUND_XML, color)

\* the prompts of a run are answered; only the gradient variant asks for
\* the gradient
HPrompt ==
    /\ hsteps < MaxPatches
    /\ \E c \in BackgroundColors, g \in BOOLEAN :
          /\ g => variant = "gradient"
          /\ opts' = [backgroundColor |-> c, useGradient |-> g,
                      macOSShape |-> "squircle"]
    /\ hlast' = Call("prompt", FALSE)
    /\ UNCHANGED <<variant, pc, ip, fs, inputIcon, inflight, exitCode, log, runs, prior, appVars>>
    /\ UNCHANGED <<hs, hfs, hpre, hsteps, calls>>

\* the patch step of main
HPatch ==
    /\ hsteps < MaxPatches
    /\ opts # NoOptions
    /\ hfs' = applyAndroidBackground(variant, hfs, opts)
    /\ hlast' = Call("patch", FALSE)
    /\ hpre' = hfs
    /\ hsteps' = hsteps + 1
    /\ UNCHANGED hs
    /\ UNCHANGED <<orchVars, calcVars, appVars>>

InitRes ==
    /\ variant \in Variants
    /\ pc = "done"
    /\ ip = 1
    /\ fs = EmptyFs
    /\ opts = NoOptions
    /\ inputIcon = <<>>
    /\ inflight = {}
    /\ exitCode = 0
    /\ log = <<>>
    /\ runs = MaxRuns
    /\ prior = NoOutcome
    /\ AppMounted
    /\ hs = "android-background"
    /\ \E launcher \in DescriptorStates, round \in DescriptorStates,
          color \in ColorFileStates, drawable \in DrawableStates :
          hfs = resDirectory(launcher, round, color, drawable)
    /\ hpre = hfs
    /\ hlast = Call("none", FALSE)
    /\ hsteps = 0
    /\ calls = <<>>

NextRes ==
    \/ HPrompt
    \/ HPatch

SpecRes == InitRes /\ [][NextRes]_vars

-----------------------------------------------------------------------------
(* Properties of the Android background patch.                             *)

\* every background reference of a descriptor names a resource that exists
ReferencesResolve(f) ==
    \A d \in AndroidDescriptorOutputs :
        isFile(f, d) =>
            /\ f.files[d] = DRAWABLE_REFERENCE => isFile(f, ANDROID_BACKGROUND_DRAWABLE)
            /\ f.files[d] = COLOR_REFERENCE => isFile(f, ANDROID_BACKGROUND_XML)

GradientChosen == variant = "gradient" /\ opts.useGradient

\* the effect of exactly one mode: the gradient mode writes the drawable
\* from the base color and leaves the color file alone; the color mode
\* leaves the drawable alone and rewrites the color node where there is one
OneModeApplied ==
    IF GradientChosen
    THEN /\ isFile(hfs, ANDROID_BACKGROUND_DRAWABLE)
         /\ hfs.files[ANDROID_BACKGROUND_DRAWABLE] = opts.backgroundColor
         /\ isFile(hfs, ANDROID_BACKGROUND_XML) = isFile(hpre, ANDROID_BACKGROUND_XML)
         /\ isFile(hfs, ANDROID_BACKGROUND_XML) =>
                hfs.files[ANDROID_BACKGROUND_XML] = hpre.files[ANDROID_BACKGROUND_XML]
         /\ \A d \in AndroidDescriptorOutputs :
                isFile(hfs, d) => hfs.files[d] # COLOR_REFERENCE
    ELSE /\ isFile(hfs, ANDROID_BACKGROUND_DRAWABLE) = isFile(hpre, ANDROID_BACKGROUND_DRAWABLE)
         /\ isFile(hfs, ANDROID_BACKGROUND_DRAWABLE) =>
                hfs.files[ANDROID_BACKGROUND_DRAWABLE] = hpre.files[ANDROID_BACKGROUND_DRAWABLE]
         /\ isFile(hfs, ANDROID_BACKGROUND_XML) = isFile(hpre, ANDROID_BACKGROUND_XML)
         /\ (isFile(hpre, ANDROID_BACKGROUND_XML)
               /\ backgroundColorOf(hpre.files[ANDROID_BACKGROUND_XML]) # "") =>
                backgroundColorOf(hfs.files[ANDROID_BACKGROUND_XML]) = opts.backgroundColor

\* C11 (as stated): after the one background mode of a run has been applied
\* (the gradient setup iff the gradient was chosen, the color rewrite
\* otherwise), whatever the res directory held before, the descriptors
\* reference the drawable only if the drawable exists and the color only if
\* the color file exists.
C11_ReferencesResolveAfterPatch ==
    hlast.op = "patch" => (OneModeApplied /\ ReferencesResolve(hfs))

\* C11 (amended): exactly one background mode is applied, and it keeps the
\* descriptors' references resolved: if every reference named an existing
\* resource before the patch, every reference does after it. A reference
\* that dangled before a color patch whose color file is missing stays as
\* it was.
C11_PatchKeepsReferencesResolved ==
    hlast.op = "patch" =>
        /\ OneModeApplied
        /\ ReferencesResolve(hpre) => ReferencesResolve(hfs)
        /\ GradientChosen => ReferencesResolve(hfs)
        /\ (~GradientChosen /\ isFile(hpre, ANDROID_BACKGROUND_XML)
              /\ isFile(hpre, ANDROID_BACKGROUND_DRAWABLE)) => ReferencesResolve(hfs)

\* a gradient patch has repointed a descriptor from the color to the drawable
C11_Witness ==
    /\ hlast.op = "patch"
    /\ GradientChosen
    /\ \E d \in AndroidDescriptorOutputs :
          /\ isFile(hpre, d)
          /\ hpre.files[d] = COLOR_REFERENCE
          /\ hfs.files[d] = DRAWABLE_REFERENCE
    /\ ~isFile(hpre, ANDROID_BACKGROUND_DRAWABLE)
    /\ ReferencesResolve(hpre)

\* the color rewrite has just been applied: updateAndroidBackgroundColor,
\* or updateBackgroundColor in its two versions
ColorPatched == hlast.op = "patch" /\ ~GradientChosen

\* the files other than the color file and the descriptors
OtherFiles(f) == DOMAIN f.files \ ({ANDROID_BACKGROUND_XML} \cup AndroidDescriptorOutputs)

\* C27: updateBackgroundColor(hex) changes only the text of the first
\* <color name="ic_launcher_background"> node of
\* values/ic_launcher_background.xml to hex and leaves the rest of that file
\* as it was; when the file does not exist it creates no file and modifies
\* nothing, the adaptive-icon descriptors included; applied a second time
\* with the same hex it changes nothing more.
C27_OnlyFirstColorNodeRewritten ==
    ColorPatched =>
        IF ~isFile(hpre, ANDROID_BACKGROUND_XML)
        THEN hfs = hpre
        ELSE LET before == hpre.files[ANDROID_BACKGROUND_XML]
                 after == hfs.files[ANDROID_BACKGROUND_XML]
             IN  /\ DOMAIN hfs.files = DOMAIN hpre.files
                 /\ hfs.dirs = hpre.dirs
                 /\ \A q \in OtherFiles(hfs) : hfs.files[q] = hpre.files[q]
                 /\ Len(after) = Len(before)
                 /\ \A i \in DOMAIN before :
                       IF /\ i \in colorNodes(before)
                          /\ \A j \in 1..(i - 1) : j \notin colorNodes(before)
                       THEN after[i] = ColorNode("ic_launcher_background",
                                                 opts.backgroundColor)
                       ELSE after[i] = before[i]
                 /\ applyAndroidBackground(variant, hfs, opts) = hfs

\* a file with a node before the color and a second node of the name after
\* it is patched: the first color node, the second of the file, is rewritten
C27_Witness ==
    /\ ColorPatched
    /\ isFile(hpre, ANDROID_BACKGROUND_XML)
    /\ Cardinality(colorNodes(hpre.files[ANDROID_BACKGROUND_XML])) = 2
    /\ hpre.files[ANDROID_BACKGROUND_XML][2].text = "#old"
    /\ hfs.files[ANDROID_BACKGROUND_XML][2].text = opts.backgroundColor
    /\ hfs.files[ANDROID_BACKGROUND_XML][3].text = "#FFFFFF"
    /\ opts.backgroundColor = "#171717"

-----------------------------------------------------------------------------
(* findInputIcon on its own: it is called on an assets directory that      *)
(* holds any combination of the candidates, and files come and go between  *)
(* the calls (specification SpecFind).                                     *)

MaxFindSteps == 3

\* the files an assets directory may hold: the candidates and another image
AssetNames == {candidates[i] : i \in DOMAIN candidates} \cup {"icon.webp"}

HFindInputIcon ==
    /\ hsteps < MaxFindSteps
    /\ inputIcon' = findInputIcon(hfs)
    /\ hlast' = Call("findInputIcon", inputIcon' = <<>>)
    /\ hpre' = hfs
    /\ hsteps' = hsteps + 1
    /\ UNCHANGED <<hs, hfs, calls>>
    /\ UNCHANGED <<variant, pc, ip, fs, opts, inflight, exitCode, log, runs, prior, appVars>>

\* an image is added to the assets directory or removed from it
HChangeAssets ==
    /\ hsteps < MaxFindSteps
    /\ \E n \in AssetNames :
          hfs' = IF isFile(hfs, join(ASSETS_DIR, n))
                 THEN rmSync(hfs, join(ASSETS_DIR, n))
                 ELSE writeFileSync(mkdirSync(hfs, ASSETS_DIR), join(ASSETS_DIR, n), "source")
    /\ hlast' = Call("modify", FALSE)
    /\ hpre' = hfs
    /\ hsteps' = hsteps + 1
    /\ UNCHANGED hs
    /\ UNCHANGED <<orchVars, calcVars, appVars>>

InitFind ==
    /\ OrchIdle
    /\ hs = "findInputIcon"
    /\ \E names \in SUBSET AssetNames : hfs = withIcons(EmptyFs, names)
    /\ hpre = hfs
    /\ hlast = Call("none", FALSE)
    /\ hsteps = 0
    /\ calls = <<>>

NextFind ==
    \/ HFindInputIcon
    \/ HChangeAssets

SpecFind == InitFind /\ [][NextFind]_vars

-----------------------------------------------------------------------------
(* Properties of findInputIcon.                                            *)

PriorityOrder ==
    <<ASSETS_DIR \o <<"icon.svg">>, ASSETS_DIR \o <<"icon.png">>,
      ASSETS_DIR \o <<"icon.jpg">>, ASSETS_DIR \o <<"icon.jpeg">>>>

\* C13: findInputIcon returns the first path that exists in the order
\* assets/icon.svg, icon.png, icon.jpg, icon.jpeg, whichever of the
\* candidates exist, and throws exactly when none of the four exists.
C13_FirstExistingCandidate ==
    hlast.op = "findInputIcon" =>
        LET present == {i \in DOMAIN PriorityOrder : existsSync(hfs, PriorityOrder[i])}
        IN  /\ hlast.threw <=> present = {}
            /\ present = {} => inputIcon = <<>>
            /\ present # {} =>
                   \E i \in present :
                       /\ inputIcon = PriorityOrder[i]
                       /\ \A j \in present : i <= j

\* the call returned the JPG although a later candidate and another image
\* exist as well
C13_Witness ==
    /\ hlast.op = "findInputIcon"
    /\ inputIcon = ASSETS_DIR \o <<"icon.jpg">>
    /\ existsSync(hfs, ASSETS_DIR \o <<"icon.jpeg">>)
    /\ existsSync(hfs, ASSETS_DIR \o <<"icon.webp">>)

-----------------------------------------------------------------------------
(* The masks (generators/mask.ts). An SVG mask is described by its root's  *)
(* size and its one shape. A coordinate of the squircle's path is an       *)
(* integer number of 1/2000 of a pixel.                                    *)

STEPS == 360

\* 1000 * cos(k degrees) ^ (2 / EXPONENT) for k = 0..90, EXPONENT = 3.7
superellipse ==
    <<1000, 1000, 1000, 999, 999, 998, 997, 996, 995, 993, 992, 990, 988,
      986, 984, 981, 979, 976, 973, 970, 967, 964, 960, 956, 952, 948,
      944, 940, 935, 930, 925, 920, 915, 909, 904, 898, 892, 886, 879,
      873, 866, 859, 852, 844, 837, 829, 821, 813, 805, 796, 788, 779,
      769, 760, 750, 740, 730, 720, 709, 699, 688, 676, 664, 653, 640,
      628, 615, 602, 588, 574, 560, 545, 530, 514, 498, 482, 464, 446,
      428, 408, 388, 367, 344, 321, 295, 267, 237, 203, 163, 112, 0>>

\* Math.sign(cosT) * Math.pow(Math.abs(cosT), 2 / EXPONENT) at the angle
\* (index / STEPS) * 2 * Math.PI, in 1/1000
cosTerm(index) ==
    LET degrees == (index * 360) \div STEPS % 360
    IN  CASE degrees <= 90 -> superellipse[degrees + 1]
          [] degrees <= 180 -> 0 - superellipse[180 - degrees + 1]
          [] degrees <= 270 -> 0 - superellipse[degrees - 180 + 1]
          [] OTHER -> superellipse[360 - degrees + 1]

\* the same for the sine: sin(t) = cos(t - 90 degrees)
sinTerm(index) == cosTerm(index + 3 * (STEPS \div 4))

\* one command of the path: `${command} ${a + x},${b + y}`
squirclePoint(width, height, index) ==
    [command |-> IF index = 0 THEN "M" ELSE "L",
     x |-> width * (1000 + cosTerm(index)),
     y |-> height * (1000 + sinTerm(index))]

createRoundedRectangle(width, height, radius) ==
    [width |-> width, height |-> height, shape |-> "rect",
     rx |-> radius, ry |-> radius, d |-> <<>>, fill |-> "white"]

\* a createSquircle whose points array outlives the call
createSquircle_sharedPoints(width, height) ==
    LET earlier == SelectSeq(calls, LAMBDA c : c.fn = "createSquircle")
        points == [i \in 1..(STEPS + 1) |-> squirclePoint(width, height, i - 1)]
    IN  [width |-> width, height |-> height, shape |-> "path", rx |-> 0, ry |-> 0,
         d |-> (IF earlier = <<>> THEN <<>> ELSE earlier[Len(earlier)].out.d) \o points,
         fill |-> "white"]

createSquircle(width, height) ==
    LET points == [i \in 1..(STEPS + 1) |-> squirclePoint(width, height, i - 1)]
    IN  [width |-> width, height |-> height, shape |-> "path", rx |-> 0, ry |-> 0,
         d |-> points, fill |-> "white"]

-----------------------------------------------------------------------------
(* The compositor's geometry. A fraction such as a padding percent is an   *)
(* integer number of 1/10000: 0.12 is 1200, 0.2237 is 2237. An optional    *)
(* argument is a set, empty when the argument is undefined. An image is    *)
(* described by the sizes it was built with.                               *)

targetSize == 1024

\* Math.floor(size * fraction); on the sizes and fractions used below the
\* floating-point product has the floor of the exact product
MathFloor(size, fraction) == (size * fraction) \div 10000

Implementations == {"legacy", "classes", "gradient"}

\* CONFIG.platform[platform].padding; iosPadding, androidPadding,
\* macOSPadding and the literal 0.05 of generate-icons.ts
platformPadding(impl, platform) ==
    CASE platform = "android" -> 2500
      [] platform = "ios" -> 1000
      [] platform = "macos" -> IF impl = "gradient" THEN 1000 ELSE 500
      [] OTHER -> 500

\* a tile that floats with a margin of 0.15
macosBackgroundPadding_wider(impl) == 1500

\* MACOS_PADDING_PERCENT, CONFIG.platform.macos.backgroundPadding, and the
\* CONFIG.platform.macos.padding that the gradient script uses in its place
macosBackgroundPadding(impl) == IF impl = "gradient" THEN 1000 ELSE 1200

macosCornerRadiusPercent == 2237

\* sharp: a resize or a canvas needs a positive size, and an overlay must
\* not be larger than the image it is composited onto
sharpRejects(overlaySize, baseSize) ==
    overlaySize <= 0 \/ baseSize <= 0 \/ overlaySize > baseSize

\* a background that is a gradient whenever a gradient is asked for
createBackgroundCanvas_gradientFirst(backgroundColor, useGradient) ==
    IF useGradient
    THEN "gradient"
    ELSE IF backgroundColor = {} THEN "transparent"
         ELSE CHOOSE c \in backgroundColor : TRUE

\* createBackgroundCanvas / createCanvas: what the background is filled with
createBackgroundCanvas(backgroundColor, useGradient) ==
    IF backgroundColor = {}
    THEN "transparent"
    ELSE IF useGradient THEN "gradient" ELSE CHOOSE c \in backgroundColor : TRUE

Image(paddingSize, iconSize, outerPaddingSize, backgroundSize, background, mask, cornerRadius, width, threw) ==
    [paddingSize |-> paddingSize, iconSize |-> iconSize,
     outerPaddingSize |-> outerPaddingSize, backgroundSize |-> backgroundSize,
     background |-> background, mask |-> mask, cornerRadius |-> cornerRadius,
     width |-> width, threw |-> threw]

\* a createPaddedIcon that pads one side only
createPaddedIcon_oneSide(paddingPercent) ==
    LET paddingSize == MathFloor(targetSize, paddingPercent)
        iconSize == targetSize - paddingSize
    IN  Image(paddingSize, iconSize, 0, targetSize, "transparent", "none", 0,
              targetSize, sharpRejects(iconSize, targetSize))

createPaddedIcon(paddingPercent) ==
    LET paddingSize == MathFloor(targetSize, paddingPercent)
        iconSize == targetSize - paddingSize * 2
    IN  Image(paddingSize, iconSize, 0, targetSize, "transparent", "none", 0,
              targetSize, sharpRejects(iconSize, targetSize))

\* createIconWithBackground of generate-icons.ts and of IconGenerator: the
\* background fills the whole canvas
IconGenerator_createIconWithBackground(paddingPercent, backgroundColor, useGradient) ==
    LET paddingSize == MathFloor(targetSize, paddingPercent)
        iconSize == targetSize - paddingSize * 2
    IN  Image(paddingSize, iconSize, 0, targetSize,
              createBackgroundCanvas(backgroundColor, useGradient), "none", 0,
              targetSize, sharpRejects(iconSize, targetSize))

\* a compositeFinalIcon that always writes the tile as it is
compositeFinalIcon_direct(backgroundSize, outerPaddingSize) == backgroundSize

\* compositeFinalIcon: the edge of the image written to outputPath
compositeFinalIcon(backgroundSize, outerPaddingSize) ==
    IF outerPaddingSize = 0 THEN backgroundSize ELSE targetSize

\* the mask of a macOS-style tile
maskOf(useSquircle) == IF useSquircle THEN "squircle" ELSE "rounded-rectangle"

\* the resized icon, a buffer made from the input image for a size
resizeIcon(size) == [kind |-> "icon", width |-> size, height |-> size]

Overlay(input, left, top, blend) ==
    [input |-> input, left |-> left, top |-> top, blend |-> blend]

\* an images list to which the mask is pushed, after the icon
images_pushed(options, backgroundSize, paddingSize, iconSize) ==
    LET icon == Overlay(resizeIcon(iconSize), paddingSize, paddingSize, "over")
        mask == IF TRUE \in options.useSquircle
                THEN createSquircle(backgroundSize, backgroundSize)
                ELSE createRoundedRectangle(backgroundSize, backgroundSize,
                         MathFloor(backgroundSize, macosCornerRadiusPercent))
    IN  IF options.useSquircle # {}
        THEN <<icon, Overlay(mask, 0, 0, "dest-in")>>
        ELSE <<icon>>

\* the images handed to compositeFinalIcon: the icon overlay, and before it
\* the mask when a shape is asked for (an overlay without a blend is drawn
\* over, a mask of the size of the background sits at its origin)
images(options, backgroundSize, paddingSize, iconSize) ==
    LET icon == Overlay(resizeIcon(iconSize), paddingSize, paddingSize, "over")
        mask == IF TRUE \in options.useSquircle
                THEN createSquircle(backgroundSize, backgroundSize)
                ELSE createRoundedRectangle(backgroundSize, backgroundSize,
                         MathFloor(backgroundSize, macosCornerRadiusPercent))
    IN  IF options.useSquircle # {}
        THEN <<Overlay(mask, 0, 0, "dest-in")>> \o <<icon>>
        ELSE <<icon>>

\* createIconWithBackground with the optional outer stage
createIconWithBackground(options) ==
    LET outerPaddingSize ==
            IF options.outerPaddingPercent \notin {{}, {0}}
            THEN MathFloor(targetSize, CHOOSE x \in options.outerPaddingPercent : TRUE)
            ELSE 0
        backgroundSize == targetSize - outerPaddingSize * 2
        paddingSize == MathFloor(backgroundSize, options.paddingPercent)
        iconSize == backgroundSize - paddingSize * 2
        masked == options.useSquircle # {}
    IN  Image(paddingSize, iconSize, outerPaddingSize, backgroundSize,
              createBackgroundCanvas(options.backgroundColor,
                                     TRUE \in options.useGradient),
              IF masked THEN maskOf(TRUE \in options.useSquircle) ELSE "none",
              IF masked THEN MathFloor(backgroundSize, macosCornerRadiusPercent) ELSE 0,
              compositeFinalIcon(backgroundSize, outerPaddingSize),
              \/ sharpRejects(iconSize, backgroundSize)
              \/ sharpRejects(backgroundSize, targetSize))
        @@ [images |-> images(options, backgroundSize, paddingSize, iconSize)]

\* createMacOSIcon: a masked tile floating on a transparent canvas
createMacOSIcon(impl, options) ==
    LET paddingSize == MathFloor(targetSize, macosBackgroundPadding(impl))
        backgroundSize == targetSize - paddingSize * 2
        cornerRadius == MathFloor(backgroundSize, macosCornerRadiusPercent)
        iconPadding == MathFloor(backgroundSize, options.iconPaddingPercent)
        iconSize == backgroundSize - iconPadding * 2
    IN  Image(iconPadding, iconSize, paddingSize, backgroundSize,
              createBackgroundCanvas(options.backgroundColor,
                                     impl = "gradient" /\ options.useGradient),
              maskOf(options.useSquircle), cornerRadius, targetSize,
              \/ sharpRejects(iconSize, backgroundSize)
              \/ sharpRejects(backgroundSize, targetSize))

\* TaskRunner.generatePlatformIcons, and the four generation steps of the
\* main of generate-icons.ts: the compositor call made for a platform
generatePlatformIcons(impl, platform, backgroundColor, useGradient, macOSShape) ==
    CASE platform = "ios" ->
           IconGenerator_createIconWithBackground(
               platformPadding(impl, platform), {backgroundColor},
               impl = "gradient" /\ useGradient)
      [] platform = "macos" ->
           createMacOSIcon(impl,
               [backgroundColor |-> {backgroundColor},
                iconPaddingPercent |-> platformPadding(impl, platform),
                useGradient |-> useGradient,
                useSquircle |-> (macOSShape = "squircle")])
      [] OTHER -> createPaddedIcon(platformPadding(impl, platform))

-----------------------------------------------------------------------------
(* The compositor is called, directly with any padding and through         *)
(* generatePlatformIcons with the configured ones (specification SpecIcon). *)

MaxPaddingPercent == 6000

\* the paddings createPaddedIcon is called with: every 1/10000 up to 0.6
PaddingPercents == 0..MaxPaddingPercent

\* the paddings the two-stage calls are made with
StagePaddings == {0, 5, 500, 1000, 1200, 2500, 3000, 4000, 6000}

CompositorCall(fn, impl, platform, outer, inner, out) ==
    [fn |-> fn, impl |-> impl, platform |-> platform,
     outerPaddingPercent |-> outer, paddingPercent |-> inner, out |-> out]

\* nothing but the record of calls changes
CallIdle ==
    /\ UNCHANGED <<orchVars, appVars>>
    /\ UNCHANGED helperVars

CreatePaddedIcon ==
    /\ calls = <<>>
    /\ \E p \in PaddingPercents :
          calls' = <<CompositorCall("createPaddedIcon", "any", "", {}, p,
                                    createPaddedIcon(p))>>
    /\ CallIdle

CreateIconWithBackground ==
    /\ calls = <<>>
    /\ \E outer \in {{}} \cup {{x} : x \in StagePaddings}, p \in StagePaddings,
          g \in {{}, {TRUE}, {FALSE}}, sq \in {{}, {TRUE}, {FALSE}},
          c \in {{}, {"#171717"}} :
          LET options == [backgroundColor |-> c,
                          outerPaddingPercent |-> outer, paddingPercent |-> p,
                          useGradient |-> g, useSquircle |-> sq]
          IN  calls' = <<CompositorCall("createIconWithBackground", "modular", "",
                                        outer, p, createIconWithBackground(options))
                         @@ [options |-> options]>>
    /\ CallIdle

CreateMacOSIcon ==
    /\ calls = <<>>
    /\ \E impl \in Implementations, p \in StagePaddings, g \in BOOLEAN, sq \in BOOLEAN :
          calls' = <<CompositorCall("createMacOSIcon", impl, "",
                        {macosBackgroundPadding(impl)}, p,
                        createMacOSIcon(impl,
                            [backgroundColor |-> {"#171717"}, iconPaddingPercent |-> p,
                             useGradient |-> g, useSquircle |-> sq]))>>
    /\ CallIdle

GeneratePlatformIcons ==
    /\ calls = <<>>
    /\ \E impl \in Implementations, platform \in {"android", "macos", "ios", "windows"},
          c \in BackgroundColors, g \in BOOLEAN, m \in MacOSShapes :
          calls' = <<CompositorCall("generatePlatformIcons", impl, platform,
                        IF platform = "macos" THEN {macosBackgroundPadding(impl)} ELSE {},
                        platformPadding(impl, platform),
                        generatePlatformIcons(impl, platform, c, g, m))>>
    /\ CallIdle

InitIcon ==
    /\ OrchIdle
    /\ hs = "none"
    /\ hfs = EmptyFs
    /\ hpre = EmptyFs
    /\ hlast = Call("none", FALSE)
    /\ hsteps = 0
    /\ calls = <<>>

NextIcon ==
    \/ CreatePaddedIcon
    \/ CreateIconWithBackground
    \/ CreateMacOSIcon
    \/ GeneratePlatformIcons

SpecIcon == InitIcon /\ [][NextIcon]_vars

-----------------------------------------------------------------------------
(* Properties of the compositor's geometry.                                *)

ValidPaddings == 0..3000

OuterPixels(c) ==
    IF c.outerPaddingPercent \in {{}, {0}}
    THEN 0
    ELSE (1024 * (CHOOSE x \in c.outerPaddingPercent : TRUE)) \div 10000

SingleStage(c) ==
    \/ c.fn = "createPaddedIcon"
    \/ c.fn = "generatePlatformIcons" /\ c.platform # "macos"

TwoStage(c) ==
    \/ c.fn \in {"createIconWithBackground", "createMacOSIcon"}
    \/ c.fn = "generatePlatformIcons" /\ c.platform = "macos"

\* C14: for every padding percent p in [0, 0.3] and T = 1024 the inner icon
\* edge is T - 2*floor(T*p) and is greater than 0; in a two-stage call the
\* same holds for the outer padding on T and for the inner padding on the
\* resulting tile, for every configured platform padding.
C14_InnerEdgePositive ==
    \A i \in DOMAIN calls :
        LET c == calls[i]
            tile == 1024 - 2 * OuterPixels(c)
        IN  /\ (SingleStage(c) /\ c.paddingPercent \in ValidPaddings) =>
                   /\ c.out.iconSize = 1024 - 2 * ((1024 * c.paddingPercent) \div 10000)
                   /\ c.out.iconSize > 0
                   /\ ~c.out.threw
            /\ (TwoStage(c) /\ c.paddingPercent \in ValidPaddings
                  /\ c.outerPaddingPercent \subseteq ValidPaddings) =>
                   /\ c.out.backgroundSize = tile
                   /\ tile > 0
                   /\ c.out.iconSize = tile - 2 * ((tile * c.paddingPercent) \div 10000)
                   /\ c.out.iconSize > 0
                   /\ ~c.out.threw

\* the largest valid padding in both stages: a 410 px tile and a 164 px icon
C14_Witness ==
    \E i \in DOMAIN calls :
        /\ calls[i].fn = "createIconWithBackground"
        /\ calls[i].outerPaddingPercent = {3000}
        /\ calls[i].paddingPercent = 3000
        /\ calls[i].out.backgroundSize = 410
        /\ calls[i].out.iconSize = 164

C16_MacosTile778 ==
    \A i \in DOMAIN calls :
        (/\ calls[i].fn = "generatePlatformIcons"
         /\ calls[i].platform = "macos"
         /\ calls[i].out.background = "#171717"
         /\ calls[i].out.mask = "squircle") =>
            /\ calls[i].out.width = 1024
            /\ calls[i].out.outerPaddingSize = (1024 * 1200) \div 10000
            /\ calls[i].out.backgroundSize = 778

\* C16 (amended): with background #171717, the squircle and no gradient, the
\* macOS PNG is 1024 wide; where the outer padding is 0.12 (generate-icons.ts
\* and the class-based script without gradient) its transparent margin is
\* floor(1024*0.12) = 122 px and its squircle-clipped tile has an edge of
\* 1024 - 2*122 = 780 px; where it is the platform padding 0.1 (the script
\* with gradient) the margin is 102 px and the tile 820 px.
C16_MacosTile ==
    \A i \in DOMAIN calls :
        (/\ calls[i].fn = "generatePlatformIcons"
         /\ calls[i].platform = "macos"
         /\ calls[i].out.background = "#171717"
         /\ calls[i].out.mask = "squircle") =>
            /\ ~calls[i].out.threw
            /\ calls[i].out.width = 1024
            /\ IF calls[i].impl = "gradient"
               THEN /\ calls[i].out.outerPaddingSize = 102
                    /\ calls[i].out.backgroundSize = 820
               ELSE /\ calls[i].out.outerPaddingSize = 122
                    /\ calls[i].out.backgroundSize = 780

C16_Witness ==
    \E i \in DOMAIN calls :
        /\ calls[i].fn = "generatePlatformIcons"
        /\ calls[i].impl = "classes"
        /\ calls[i].platform = "macos"
        /\ calls[i].out.background = "#171717"
        /\ calls[i].out.mask = "squircle"
        /\ calls[i].out.backgroundSize = 780

\* C17: whatever outerPaddingPercent (undefined, or so small that its pixel
\* padding is 0, included) and paddingPercent are, the image
\* createIconWithBackground writes is 1024 wide: twice the outer padding
\* plus the tile is 1024, and without the outer stage the tile is 1024.
C17_OutputIsTargetSize ==
    \A i \in DOMAIN calls :
        (calls[i].fn = "createIconWithBackground" /\ ~calls[i].out.threw) =>
            /\ calls[i].out.width = 1024
            /\ 2 * calls[i].out.outerPaddingSize + calls[i].out.backgroundSize = 1024
            /\ calls[i].out.outerPaddingSize = 0 => calls[i].out.backgroundSize = 1024

\* an image was written through the outer stage
C17_Witness ==
    \E i \in DOMAIN calls :
        /\ calls[i].fn = "createIconWithBackground"
        /\ calls[i].outerPaddingPercent = {1200}
        /\ ~calls[i].out.threw
        /\ calls[i].out.outerPaddingSize = 122
        /\ calls[i].out.backgroundSize = 780
        /\ calls[i].out.width = 1024

\* the calls of createIconWithBackground that wrote an image
Composited ==
    {i \in DOMAIN calls : calls[i].fn = "createIconWithBackground" /\ ~calls[i].out.threw}

\* C25: in createIconWithBackground, when a shape is specified the images
\* composited onto the background are exactly the mask with the dest-in
\* blend and then the resized icon at (padding, padding), so that the mask
\* clips the background alone and the icon is laid over the result; when no
\* shape is specified the icon overlay is the whole list. The mask is the
\* squircle iff useSquircle is true, and otherwise the rounded rectangle
\* whose radius is floor(0.2237 * tile edge).
C25_MaskThenIcon ==
    \A i \in Composited :
        LET o == calls[i].out
            useSquircle == calls[i].options.useSquircle
            tile == o.backgroundSize
            icon == Overlay(resizeIcon(o.iconSize), o.paddingSize, o.paddingSize, "over")
        IN  IF useSquircle = {}
            THEN o.images = <<icon>>
            ELSE /\ Len(o.images) = 2
                 /\ o.images[2] = icon
                 /\ o.images[1].blend = "dest-in"
                 /\ o.images[1].input.width = tile
                 /\ o.images[1].input.height = tile
                 /\ IF TRUE \in useSquircle
                    THEN /\ o.images[1].input.shape = "path"
                         /\ Len(o.images[1].input.d) = STEPS + 1
                    ELSE /\ o.images[1].input.shape = "rect"
                         /\ o.images[1].input.rx = (tile * 2237) \div 10000
                         /\ o.images[1].input.ry = o.images[1].input.rx

\* a rounded-rectangle mask on a floating tile of 780 px: radius 174
C25_Witness ==
    \E i \in Composited :
        /\ calls[i].options.useSquircle = {FALSE}
        /\ calls[i].out.backgroundSize = 780
        /\ calls[i].out.images[1].input.rx = 174
        /\ calls[i].out.images[2].left = 39

\* C26: the background canvas is a gradient raster only when useGradient is
\* true and a background color is given; with no background color it is
\* fully transparent, even when useGradient is true; otherwise it is a solid
\* canvas of the given color.
C26_BackgroundCanvas ==
    \A i \in Composited :
        LET backgroundColor == calls[i].options.backgroundColor
            useGradient == calls[i].options.useGradient
            background == calls[i].out.background
        IN  /\ background = "gradient" <=> (useGradient = {TRUE} /\ backgroundColor # {})
            /\ backgroundColor = {} => background = "transparent"
            /\ (backgroundColor # {} /\ useGradient # {TRUE}) => background \in backgroundColor

\* a gradient is asked for and no color is given
C26_Witness ==
    \E i \in Composited :
        /\ calls[i].options.backgroundColor = {}
        /\ calls[i].options.useGradient = {TRUE}
        /\ calls[i].out.background = "transparent"

-----------------------------------------------------------------------------
(* The gradient generators. A colord value is described by its hue in      *)
(* degrees, its lightness in 1/5100 (10 * (max + min) of the 8-bit         *)
(* channels, so that 0.08 is 408) and whether it has a saturation.         *)

\* the colors a background is chosen from: the two presets, custom greys
\* around the brightness thresholds, and custom colors with a hue
Palette ==
    {"#171717", "#FFFFFF", "#808080", "#4B4B4B", "#4C4C4C", "#FDFDFD", "#FEFEFE",
     "#336699", "#1A2B3C", "#FFFFFE", "#CC3333", "#003300"}

\* the channels of a hex color
parseHex(hexColor) ==
    CASE hexColor = "#171717" -> [r |-> 23, g |-> 23, b |-> 23]
      [] hexColor = "#FFFFFF" -> [r |-> 255, g |-> 255, b |-> 255]
      [] hexColor = "#808080" -> [r |-> 128, g |-> 128, b |-> 128]
      [] hexColor = "#4B4B4B" -> [r |-> 75, g |-> 75, b |-> 75]
      [] hexColor = "#4C4C4C" -> [r |-> 76, g |-> 76, b |-> 76]
      [] hexColor = "#FDFDFD" -> [r |-> 253, g |-> 253, b |-> 253]
      [] hexColor = "#FEFEFE" -> [r |-> 254, g |-> 254, b |-> 254]
      [] hexColor = "#336699" -> [r |-> 51, g |-> 102, b |-> 153]
      [] hexColor = "#1A2B3C" -> [r |-> 26, g |-> 43, b |-> 60]
      [] hexColor = "#FFFFFE" -> [r |-> 255, g |-> 255, b |-> 254]
      [] hexColor = "#CC3333" -> [r |-> 204, g |-> 51, b |-> 51]
      [] OTHER -> [r |-> 0, g |-> 51, b |-> 0]

maxChannel(c) ==
    IF c.r >= c.g /\ c.r >= c.b THEN c.r ELSE IF c.g >= c.b THEN c.g ELSE c.b

minChannel(c) ==
    IF c.r <= c.g /\ c.r <= c.b THEN c.r ELSE IF c.g <= c.b THEN c.g ELSE c.b

\* Math.round(numerator / denominator), the denominator positive
MathRound(numerator, denominator) == (2 * numerator + denominator) \div (2 * denominator)

\* colord's hue(): the hue of the channels, rounded to a degree
hueOfChannels(c) ==
    LET mx == maxChannel(c)
        delta == mx - minChannel(c)
    IN  IF delta = 0
        THEN 0
        ELSE (CASE mx = c.r -> MathRound(60 * (c.g - c.b), delta)
                [] mx = c.g -> 120 + MathRound(60 * (c.b - c.r), delta)
                [] OTHER -> 240 + MathRound(60 * (c.r - c.g), delta)) % 360

\* colord(baseColor)
colord(baseColor) ==
    LET c == parseHex(baseColor)
    IN  [h |-> hueOfChannels(c),
         l |-> 10 * (maxChannel(c) + minChannel(c)),
         chromatic |-> maxChannel(c) # minChannel(c)]

\* a brightness that is the mean of the channels
brightness_mean(baseColor) ==
    LET c == parseHex(baseColor) IN ((c.r + c.g + c.b) * 100) \div 765

\* colord's brightness(), in 1/100: (299 r + 587 g + 114 b) / 1000 / 255
\* rounded to two decimals
brightness(baseColor) ==
    LET c == parseHex(baseColor)
    IN  MathRound((299 * c.r + 587 * c.g + 114 * c.b) * 100, 255000)

\* lighten(amount) and darken(amount), the amount in 1/100: the lightness
\* moves by the amount and stays within [0, 1]
lighten(color, amount) ==
    LET l == color.l + 51 * amount
    IN  [color EXCEPT !.l = IF l < 0 THEN 0 ELSE IF l > 5100 THEN 5100 ELSE l]

darken(color, amount) == lighten(color, 0 - amount)

\* hue(value): the hue is set to the value
hue(color, value) == [color EXCEPT !.h = value % 360]

\* rotate(amount): the hue is moved by the amount
rotate(color, amount) == hue(color, color.h + amount)

\* toHex(): a white, a black or a grey carries no hue
toHex(color) ==
    IF color.chromatic /\ color.l > 0 /\ color.l < 5100
    THEN color
    ELSE [h |-> 0, l |-> color.l, chromatic |-> FALSE]

\* the hue operation of a generator: rotate in the gradient module, hue in
\* GradientGenerator
turn(operation, color, amount) ==
    IF operation = "rotate" THEN rotate(color, amount) ELSE hue(color, amount)

\* the three brightness bands
bandVariants(baseColor, operation) ==
    LET base == colord(baseColor)
    IN  IF brightness(baseColor) < 30
        THEN [variantA |-> toHex(turn(operation, lighten(base, 20), 20)),
              variantB |-> toHex(turn(operation, lighten(base, 8), 0 - 20))]
        ELSE IF brightness(baseColor) >= 100
        THEN [variantA |-> toHex(turn(operation, darken(base, 15), 20)),
              variantB |-> toHex(turn(operation, darken(base, 30), 0 - 20))]
        ELSE [variantA |-> toHex(turn(operation, lighten(base, 8), 20)),
              variantB |-> toHex(turn(operation, darken(base, 8), 0 - 20))]

\* getGradientVariants of the gradient module
getGradientVariants(baseColor) == bandVariants(baseColor, "rotate")

\* a radial gradient: its color at the center, the center and the radius in
\* percent of the shape
Radial(color, cx, cy, radius) == [color |-> color, cx |-> cx, cy |-> cy, r |-> radius]

Layers(kind, width, height, baseColor, variants) ==
    [kind |-> kind, width |-> width, height |-> height, fill |-> baseColor,
     topLeft |-> Radial(variants.variantA, 0, 10, 90),
     bottomRight |-> Radial(variants.variantB, 100, 100, 80)]

\* createGradient of the gradient module: the SVG
createGradient(width, height, baseColor) ==
    Layers("svg", width, height, baseColor, getGradientVariants(baseColor))

\* a drawable with the two variants exchanged
createAndroidDrawable_exchanged(baseColor) ==
    Layers("layer-list", 0, 0, baseColor,
           [variantA |-> getGradientVariants(baseColor).variantB,
            variantB |-> getGradientVariants(baseColor).variantA])

\* createAndroidDrawable of the gradient module: the layer-list
createAndroidDrawable(baseColor) ==
    Layers("layer-list", 0, 0, baseColor, getGradientVariants(baseColor))

\* GradientGenerator.createGradient
GradientGenerator_createGradient(width, height, baseColor) ==
    Layers("svg", width, height, baseColor, bandVariants(baseColor, "hue"))

\* GradientGenerator.createAndroidDrawable
GradientGenerator_createAndroidDrawable(baseColor) ==
    Layers("layer-list", 0, 0, baseColor, bandVariants(baseColor, "hue"))

-----------------------------------------------------------------------------
(* The generators are called for the background color of a run             *)
(* (specification SpecGradient).                                           *)

MaxGradientCalls == 2

\* the sizes createGradientBuffer asks a gradient for: the canvas and a
\* macOS tile
GradientSizes == {targetSize, targetSize - 2 * MathFloor(targetSize, macosBackgroundPadding("classes"))}

GradientCall(fn, impl, baseColor, out) ==
    [fn |-> fn, impl |-> impl, baseColor |-> baseColor, out |-> out]

\* a run has one background color
RunColor(baseColor) ==
    /\ Len(calls) < MaxGradientCalls
    /\ calls # <<>> => baseColor = calls[1].baseColor

GetGradientVariants ==
    /\ \E c \in Palette :
          /\ RunColor(c)
          /\ calls' = Append(calls, GradientCall("getGradientVariants", "module", c,
                                                 getGradientVariants(c)))
    /\ CallIdle

CreateGradient ==
    /\ \E c \in Palette, size \in GradientSizes :
          /\ RunColor(c)
          /\ calls' = Append(calls, GradientCall("createGradient", "module", c,
                                                 createGradient(size, size, c)))
    /\ CallIdle

CreateAndroidDrawable ==
    /\ \E c \in Palette :
          /\ RunColor(c)
          /\ calls' = Append(calls, GradientCall("createAndroidDrawable", "module", c,
                                                 createAndroidDrawable(c)))
    /\ CallIdle

GradientGeneratorCreateGradient ==
    /\ \E c \in Palette, size \in GradientSizes :
          /\ RunColor(c)
          /\ calls' = Append(calls, GradientCall("createGradient", "GradientGenerator", c,
                                        GradientGenerator_createGradient(size, size, c)))
    /\ CallIdle

GradientGeneratorCreateAndroidDrawable ==
    /\ \E c \in Palette :
          /\ RunColor(c)
          /\ calls' = Append(calls, GradientCall("createAndroidDrawable", "GradientGenerator", c,
                                        GradientGenerator_createAndroidDrawable(c)))
    /\ CallIdle

NextGradient ==
    \/ GetGradientVariants
    \/ CreateGradient
    \/ CreateAndroidDrawable
    \/ GradientGeneratorCreateGradient
    \/ GradientGeneratorCreateAndroidDrawable

SpecGradient == InitIcon /\ [][NextGradient]_vars

-----------------------------------------------------------------------------
(* Properties of the gradient generators.                                  *)

\* the pair of variants a call worked with
VariantsOf(c) ==
    IF c.fn = "getGradientVariants"
    THEN c.out
    ELSE [variantA |-> c.out.topLeft.color, variantB |-> c.out.bottomRight.color]

\* lightness of a hex color and a lightness moved by an amount, in 1/5100
Lightness(hexColor) ==
    10 * (maxChannel(parseHex(hexColor)) + minChannel(parseHex(hexColor)))

Moved(l, amount) ==
    IF l + 51 * amount < 0 THEN 0 ELSE IF l + 51 * amount > 5100 THEN 5100 ELSE l + 51 * amount

\* brightness of a hex color as the generators measure it, in 1/100
Luma(hexColor) ==
    LET c == parseHex(hexColor)
    IN  (2 * 100 * (299 * c.r + 587 * c.g + 114 * c.b) + 255000) \div 510000

Band(hexColor) ==
    IF Luma(hexColor) < 30 THEN "dark" ELSE IF Luma(hexColor) >= 100 THEN "light" ELSE "mid"

\* C18: every base color selects exactly one band: the dark branch (both
\* variants lightened, by 0.20 and 0.08) iff brightness < 0.3, the light
\* branch (both darkened, by 0.15 and 0.30) iff brightness >= 1.0, the mid
\* branch (lightened 0.08 / darkened 0.08) otherwise; #171717 selects dark,
\* #FFFFFF light and #808080 mid.
C18_BrightnessBands ==
    \A i \in DOMAIN calls :
        LET c == calls[i]
            l == Lightness(c.baseColor)
            v == VariantsOf(c)
        IN  /\ (c.baseColor = "#171717" => Band(c.baseColor) = "dark")
            /\ (c.baseColor = "#FFFFFF" => Band(c.baseColor) = "light")
            /\ (c.baseColor = "#808080" => Band(c.baseColor) = "mid")
            /\ Band(c.baseColor) = "dark" =>
                   v.variantA.l = Moved(l, 20) /\ v.variantB.l = Moved(l, 8)
            /\ Band(c.baseColor) = "light" =>
                   v.variantA.l = Moved(l, 0 - 15) /\ v.variantB.l = Moved(l, 0 - 30)
            /\ Band(c.baseColor) = "mid" =>
                   v.variantA.l = Moved(l, 8) /\ v.variantB.l = Moved(l, 0 - 8)

\* a grey just under the rounded threshold took the mid branch
C18_Witness ==
    \E i \in DOMAIN calls :
        /\ calls[i].baseColor = "#4C4C4C"
        /\ calls[i].fn = "createAndroidDrawable"
        /\ VariantsOf(calls[i]).variantA.l = Lightness("#4C4C4C") + 408
        /\ VariantsOf(calls[i]).variantB.l = Lightness("#4C4C4C") - 408

\* C19: in every generator and every band, variantA's hue is the base hue
\* rotated by +20 degrees and variantB's the base hue rotated by -20 degrees
\* (relative to the base, modulo 360), wherever the variant has a hue.
C19_HueRotatedRelative ==
    \A i \in DOMAIN calls :
        LET v == VariantsOf(calls[i])
            baseHue == hueOfChannels(parseHex(calls[i].baseColor))
        IN  /\ v.variantA.chromatic => v.variantA.h = (baseHue + 20) % 360
            /\ v.variantB.chromatic => v.variantB.h = (baseHue + 340) % 360

\* C20: for every base color the SVG of createGradient and the layer-list of
\* createAndroidDrawable of a generator have the same base color and the
\* same pair of variants, variantA on the top-left gradient (center 0%/10%,
\* radius 90%) and variantB on the bottom-right one (center 100%/100%,
\* radius 80%).
C20_SvgAndDrawableAgree ==
    \A i \in DOMAIN calls, j \in DOMAIN calls :
        (/\ calls[i].fn = "createGradient"
         /\ calls[j].fn = "createAndroidDrawable"
         /\ calls[i].impl = calls[j].impl
         /\ calls[i].baseColor = calls[j].baseColor) =>
            /\ calls[i].out.fill = calls[i].baseColor
            /\ calls[j].out.fill = calls[i].baseColor
            /\ calls[i].out.topLeft = calls[j].out.topLeft
            /\ calls[i].out.bottomRight = calls[j].out.bottomRight
            /\ calls[i].out.topLeft.cx = 0 /\ calls[i].out.topLeft.cy = 10
            /\ calls[i].out.topLeft.r = 90
            /\ calls[i].out.bottomRight.cx = 100 /\ calls[i].out.bottomRight.cy = 100
            /\ calls[i].out.bottomRight.r = 80
            /\ calls[i].out.topLeft.color.l =
                   IF Band(calls[i].baseColor) = "dark"
                   THEN Moved(Lightness(calls[i].baseColor), 20)
                   ELSE IF Band(calls[i].baseColor) = "light"
                   THEN Moved(Lightness(calls[i].baseColor), 0 - 15)
                   ELSE Moved(Lightness(calls[i].baseColor), 8)

\* both descriptions were produced for a color whose variants differ in hue
C20_Witness ==
    \E i \in DOMAIN calls, j \in DOMAIN calls :
        /\ calls[i].fn = "createGradient"
        /\ calls[j].fn = "createAndroidDrawable"
        /\ calls[i].impl = "module"
        /\ calls[j].impl = "module"
        /\ calls[i].baseColor = "#336699"
        /\ calls[j].baseColor = "#336699"
        /\ calls[i].out.topLeft.color.h = 230
        /\ calls[j].out.bottomRight.color.h = 190

-----------------------------------------------------------------------------
(* The masks are generated, again and again and in any order               *)
(* (specification SpecMask).                                               *)

MaxMaskCalls == 3

\* the tile edges of the macOS icons, and the whole canvas
MaskEdges == {780, targetSize}

MaskCall(fn, width, height, out) ==
    [fn |-> fn, width |-> width, height |-> height, out |-> out]

CreateSquircle ==
    /\ Len(calls) < MaxMaskCalls
    /\ \E width \in MaskEdges, height \in MaskEdges :
          calls' = Append(calls, MaskCall("createSquircle", width, height,
                                          createSquircle(width, height)))
    /\ CallIdle

CreateRoundedRectangle ==
    /\ Len(calls) < MaxMaskCalls
    /\ \E size \in MaskEdges :
          calls' = Append(calls,
                      MaskCall("createRoundedRectangle", size, size,
                          createRoundedRectangle(size, size,
                              MathFloor(size, macosCornerRadiusPercent))))
    /\ CallIdle

NextMask ==
    \/ CreateSquircle
    \/ CreateRoundedRectangle

SpecMask == InitIcon /\ [][NextMask]_vars

-----------------------------------------------------------------------------
(* The prompts (prompts.ts). A text is the sequence of its characters. A   *)
(* prompt with a validate function shows the message the function returns *)
(* and asks again until the function returns true; the transcript of a     *)
(* prompt function is the sequence of the answers given, each with what    *)
(* became of it.                                                           *)

HexDigits ==
    {"0", "1", "2", "3", "4", "5", "6", "7", "8", "9",
     "a", "b", "c", "d", "e", "f", "A", "B", "C", "D", "E", "F"}

\* "#171717" and "#FFFFFF"
DARK == <<"#", "1", "7", "1", "7", "1", "7">>
LIGHT == <<"#", "F", "F", "F", "F", "F", "F">>

\* a validate that looks for a hex color anywhere in the text
validateHex_unanchored(value) ==
    \E k \in 1..Len(value) :
        /\ k + 6 <= Len(value)
        /\ value[k] = "#"
        /\ \A i \in (k + 1)..(k + 6) : value[i] \in HexDigits

\* validate of the custom color: /^#[0-9A-Fa-f]{6}$/.test(value)
validateHex(value) ==
    /\ Len(value) = 7
    /\ value[1] = "#"
    /\ \A i \in 2..7 : value[i] \in HexDigits

\* validate of the platforms: selected.length > 0
validateSelected(selected) == Len(selected) > 0

\* Object.entries(CONFIG.platform): the keys in their order
PlatformKeys == <<"android", "ios", "macos", "windows">>

\* CONFIG.platform[key].prerequisite, the empty set where there is none
prerequisite(key) ==
    CASE key = "android" -> {<<"src-tauri/gen/android">>}
      [] key = "ios" -> {<<"src-tauri/gen/apple">>}
      [] key = "macos" -> {<<"src-tauri/tauri.macos.conf.json">>}
      [] OTHER -> {}

\* a check that finds every prerequisite
hasPrerequisite_assumed(f, key) == TRUE

\* "prerequisite" in value ? fs.existsSync(value.prerequisite) : true
hasPrerequisite(f, key) ==
    IF prerequisite(key) # {}
    THEN existsSync(f, CHOOSE q \in prerequisite(key) : TRUE)
    ELSE TRUE

\* the choices of the checkbox
platformChoices(f) ==
    [i \in DOMAIN PlatformKeys |->
        [value |-> PlatformKeys[i],
         checked |-> hasPrerequisite(f, PlatformKeys[i]),
         notFound |-> ~(hasPrerequisite(f, PlatformKeys[i])
                        \/ prerequisite(PlatformKeys[i]) = {})]]

\* the values of the chosen boxes, in the order of the choices
selectedValues(chosen) ==
    SelectSeq(PlatformKeys, LAMBDA key : key \in chosen)

-----------------------------------------------------------------------------
(* A prompt function is called and the user answers, any number of times   *)
(* (specification SpecPrompt).                                             *)

MaxAnswers == 3

\* what the user may type as a custom color
Texts ==
    {<<>>, DARK, LIGHT,
     <<"#", "a", "1", "B", "2", "c", "3">>,
     <<"1", "7", "1", "7", "1", "7">>,
     <<"#", "1", "7", "1", "7", "1">>,
     <<"#", "1", "7", "1", "7", "1", "7", "1">>,
     <<"#", "1", "7", "1", "7", "1", "G">>,
     <<" ", "#", "1", "7", "1", "7", "1", "7">>,
     <<"r", "e", "d">>}

Answer(prompt, answer, outcome, value, choices) ==
    [prompt |-> prompt, answer |-> answer, outcome |-> outcome, value |-> value,
     choices |-> choices]

\* the prompt the user is looking at
Asking(prompt) ==
    /\ calls # <<>>
    /\ Len(calls) < MaxAnswers + 1
    /\ \/ calls[Len(calls)].outcome = "invalid" /\ calls[Len(calls)].prompt = prompt
       \/ calls[Len(calls)].outcome = "asked" /\ prompt = "input"

\* getBackgroundColor: the select
SelectBackground ==
    /\ hs = "getBackgroundColor"
    /\ calls = <<>>
    /\ \E choice \in {"light", "dark", "custom"} :
          calls' = <<CASE choice = "dark" -> Answer("select", choice, "returned", DARK, <<>>)
                       [] choice = "light" -> Answer("select", choice, "returned", LIGHT, <<>>)
                       [] OTHER -> Answer("select", choice, "asked", <<>>, <<>>)>>
    /\ CallIdle

\* getBackgroundColor: the input of the custom color; an empty line stands
\* for the default
InputCustomColor ==
    /\ hs = "getBackgroundColor"
    /\ Asking("input")
    /\ \E text \in Texts :
          LET value == IF text = <<>> THEN DARK ELSE text
          IN  calls' = Append(calls,
                          IF validateHex(value)
                          THEN Answer("input", text, "returned", value, <<>>)
                          ELSE Answer("input", text, "invalid", <<>>, <<>>))
    /\ CallIdle

\* getPlatformsToGenerate: the user submits the boxes as they are, or after
\* changing some
CheckPlatforms ==
    /\ hs = "getPlatformsToGenerate"
    /\ calls = <<>> \/ Asking("checkbox")
    /\ \E chosen \in SUBSET {PlatformKeys[i] : i \in DOMAIN PlatformKeys} :
          LET selected == selectedValues(chosen)
          IN  calls' = Append(calls,
                          IF validateSelected(selected)
                          THEN Answer("checkbox", chosen, "returned", selected,
                                      platformChoices(hfs))
                          ELSE Answer("checkbox", chosen, "invalid", <<>>,
                                      platformChoices(hfs)))
    /\ CallIdle

RECURSIVE withPrerequisites(_, _)
withPrerequisites(f, paths) ==
    IF paths = {}
    THEN f
    ELSE LET q == CHOOSE x \in paths : TRUE
         IN  withPrerequisites(mkdirSync(f, q), paths \ {q})

InitPrompt ==
    /\ OrchIdle
    /\ \/ /\ hs = "getBackgroundColor"
          /\ hfs = EmptyFs
       \/ /\ hs = "getPlatformsToGenerate"
          /\ \E present \in SUBSET (UNION {prerequisite(PlatformKeys[i]) :
                                             i \in DOMAIN PlatformKeys}) :
                hfs = withPrerequisites(EmptyFs, present)
    /\ hpre = hfs
    /\ hlast = Call("none", FALSE)
    /\ hsteps = 0
    /\ calls = <<>>

NextPrompt ==
    \/ SelectBackground
    \/ InputCustomColor
    \/ CheckPlatforms

SpecPrompt == InitPrompt /\ [][NextPrompt]_vars

\* ^#[0-9A-Fa-f]{6}$
IsHexColor(text) ==
    /\ Len(text) = 7
    /\ text[1] = "#"
    /\ {text[i] : i \in 2..7} \subseteq HexDigits

\* C23: invalid input is asked for again and never returned or escalated:
\* whatever the user answers, getBackgroundColor returns only a string that
\* matches ^#[0-9A-Fa-f]{6}$ (#171717 for dark, #FFFFFF for light, the
\* validated text for custom), getPlatformsToGenerate never returns an empty
\* list, and an answer that is not valid is followed by the same prompt.
C23_OnlyValidAnswersReturned ==
    /\ \A i \in DOMAIN calls :
          /\ calls[i].outcome = "returned" =>
                /\ i = Len(calls)
                /\ hs = "getBackgroundColor" =>
                      /\ IsHexColor(calls[i].value)
                      /\ calls[1].answer = "dark" => calls[i].value = DARK
                      /\ calls[1].answer = "light" => calls[i].value = LIGHT
                      /\ calls[1].answer = "custom" =>
                            calls[i].value \in {calls[i].answer, DARK}
                /\ hs = "getPlatformsToGenerate" =>
                      /\ calls[i].value # <<>>
                      /\ {calls[i].value[k] : k \in DOMAIN calls[i].value} = calls[i].answer
          /\ calls[i].outcome \in {"returned", "invalid", "asked"}
          /\ (calls[i].outcome = "invalid" /\ i < Len(calls)) =>
                calls[i + 1].prompt = calls[i].prompt
          /\ (calls[i].prompt = "input" /\ ~IsHexColor(calls[i].answer)
              /\ calls[i].answer # <<>>) => calls[i].outcome = "invalid"
          /\ (calls[i].prompt = "checkbox" /\ calls[i].answer = {}) =>
                calls[i].outcome = "invalid"

\* a text with a character too many, then one that is no hex number, then a
\* valid custom color, which is returned
C23_Witness ==
    /\ hs = "getBackgroundColor"
    /\ Len(calls) = 4
    /\ calls[1].answer = "custom"
    /\ calls[2].outcome = "invalid"
    /\ Len(calls[2].answer) = 8
    /\ calls[3].outcome = "invalid"
    /\ calls[4].outcome = "returned"
    /\ calls[4].value = <<"#", "a", "1", "B", "2", "c", "3">>

\* C24: in the platform multi-select a platform whose prerequisite path
\* does not exist is not pre-checked (and is marked as not found), which is
\* no error: the prompt is shown and returns; every platform whose
\* prerequisite exists, and windows, which has none, is pre-checked.
C24_AvailablePlatformsPreChecked ==
    \A i \in DOMAIN calls :
        calls[i].prompt = "checkbox" =>
            LET choices == calls[i].choices
            IN  /\ Len(choices) = 4
                /\ choices[1].value = "android"
                /\ choices[1].checked <=> isDir(hfs, <<"src-tauri/gen/android">>)
                /\ choices[2].value = "ios"
                /\ choices[2].checked <=> isDir(hfs, <<"src-tauri/gen/apple">>)
                /\ choices[3].value = "macos"
                /\ choices[3].checked
                      <=> existsSync(hfs, <<"src-tauri/tauri.macos.conf.json">>)
                /\ choices[4].value = "windows"
                /\ choices[4].checked
                /\ \A k \in 1..4 : choices[k].notFound <=> ~choices[k].checked
                /\ calls[i].outcome \in {"returned", "invalid"}

\* the Android project is missing, the iOS project is there, and the user
\* submits the boxes as they were shown
C24_Witness ==
    /\ hs = "getPlatformsToGenerate"
    /\ ~existsSync(hfs, <<"src-tauri/gen/android">>)
    /\ existsSync(hfs, <<"src-tauri/gen/apple">>)
    /\ Len(calls) = 1
    /\ ~calls[1].choices[1].checked
    /\ calls[1].choices[2].checked
    /\ calls[1].outcome = "returned"
    /\ calls[1].answer = {calls[1].choices[k].value :
                             k \in {j \in 1..4 : calls[1].choices[j].checked}}

-----------------------------------------------------------------------------
(* The example front-end (src/app.tsx): a form with one input and the      *)
(* greeting below it. A text is a sequence of pieces, the empty text the   *)
(* empty sequence.                                                         *)

MaxSubmits == 3

Names == {"", "Ada", "Bob"}

\* what invoke("greet", { name }) resolves to: the backend's greeting for
\* the name it was called with
greet_response(argument) == <<"greeting for", argument>>

InvokeCall(id, argument) == [id |-> id, name |-> argument]

\* onChange of the input
SetName ==
    /\ \E value \in Names \ {name} : name' = value
    /\ UNCHANGED <<greetMsg, invokes, submitted>>
    /\ UNCHANGED <<orchVars, helperVars, calcVars>>

\* onSubmit of the form: greet() reads the name signal and sends the call
Submit ==
    /\ Len(submitted) < MaxSubmits
    /\ invokes' = invokes \cup {InvokeCall(Len(submitted) + 1, name)}
    /\ submitted' = Append(submitted, name)
    /\ UNCHANGED <<greetMsg, name>>
    /\ UNCHANGED <<orchVars, helperVars, calcVars>>

\* the continuation of greet() after its await: setGreetMsg(response)
greet(call) == greet_response(call.name)

\* the response to one of the pending calls arrives
Respond ==
    /\ \E call \in invokes :
          /\ greetMsg' = greet(call)
          /\ invokes' = invokes \ {call}
    /\ UNCHANGED <<name, submitted>>
    /\ UNCHANGED <<orchVars, helperVars, calcVars>>

NextGreet ==
    \/ SetName
    \/ Submit
    \/ Respond

SpecGreet == InitIcon /\ [][NextGreet]_vars

\* C30: when the form has been submitted and every invoke call has
\* completed, the greeting displayed is the response to the name submitted
\* last. It does not hold: each response sets the signal when it arrives, so
\* the greeting displayed is the one that arrived last.
C30_LatestGreetingDisplayed ==
    (submitted # <<>> /\ invokes = {}) =>
        greetMsg = greet_response(submitted[Len(submitted)])

=============================================================================
